---- MODULE Spec2Model ----
(***************************************************************************)
(* Model of mcp-pg-metatool: the saved-query lifecycle (save_query,        *)
(* delete_saved_query, startup load) over the Persistence Store            *)
(* (storage.ts), the Registry (registeredTools map of server.ts) and the   *)
(* MCP server's own tool table.                                            *)
(*                                                                         *)
(* Strings that the code scans character by character (SQL text) are       *)
(* sequences of one-character strings.  Handlers contain no await before   *)
(* their last statement, so each handler call is one atomic action.        *)
(***************************************************************************)
EXTENDS Integers, Sequences, FiniteSets, TLC

\* ------------------------------------------------------------------------
\* Bounds of the model
\* ------------------------------------------------------------------------

\* number of user-chosen (non-core) tool names the operations range over
MaxUserNames == 1

\* longest SQL text parseNamedParameters is applied to on its own
MaxSqlLen == 6

\* calls the event loop accepts in one run of the event-loop model
MaxTasks == 2

\* ------------------------------------------------------------------------
\* Names
\* ------------------------------------------------------------------------

AllUserNames == <<"get_user", "my_query", "top_orders", "daily_report">>

UserNames == {AllUserNames[i] : i \in 1..MaxUserNames}

\* deleteSavedQuery.ts: the core tools that cannot be deleted
PROTECTED_TOOLS ==
    {"execute_sql_query", "save_query", "delete_saved_query",
     "list_saved_queries", "show_saved_query", "list_schemas", "list_tables",
     "describe_table", "list_views", "describe_view"}

\* server.ts: core tools registered for each DISABLE_CORE_TOOLS setting
CoreToolsFor(disableSetting) ==
    IF disableSetting = "all" THEN {}
    ELSE IF disableSetting = "management"
    THEN {"execute_sql_query", "list_schemas", "list_tables",
          "describe_table", "list_views", "describe_view"}
    ELSE {"execute_sql_query", "save_query", "delete_saved_query",
          "list_saved_queries", "show_saved_query", "list_schemas",
          "list_tables", "describe_table", "list_views", "describe_view"}

DisableSettings == {"none", "management", "all"}

\* core name that save_query calls and the data directory range over in the
\* model besides the user names (delete_saved_query ranges over all ten)
CoreNamesSaved == {"save_query"}

\* names a record file or a save_query call can carry in the model
StoreNames == UserNames \cup CoreNamesSaved

\* every tool name a request of the model can carry
Names == UserNames \cup PROTECTED_TOOLS

\* ------------------------------------------------------------------------
\* parameterMapper.ts
\* ------------------------------------------------------------------------

Letters == {"a", "b", "i", "x", "y", "_", "v", "l", "u", "e", "O", "f"}
Digits == {"1", "2"}

\* 'valueOf', a property every plain object inherits from Object.prototype
ValueOfName == <<"v", "a", "l", "u", "e", "O", "f">>

\* [a-zA-Z_]
IsIdentStart(c) == c \in Letters

\* [a-zA-Z0-9_]
IsIdentChar(c) == c \in Letters \cup Digits

\* String(position): decimal digits of a positive integer, as characters
RECURSIVE DecimalChars(_)
DecimalChars(n) ==
    LET d == <<"0", "1", "2", "3", "4", "5", "6", "7", "8", "9">>
    IN IF n < 10 THEN <<d[n + 1]>>
       ELSE DecimalChars(n \div 10) \o <<d[(n % 10) + 1]>>

\* index of the first occurrence of v in seq, 0 when absent
IndexOf(seq, v) ==
    IF \E i \in 1..Len(seq) : seq[i] = v
    THEN CHOOSE i \in 1..Len(seq) : seq[i] = v /\ \A j \in 1..(i - 1) : seq[j] # v
    ELSE 0

\* mutant of MatchesAt: the regex without its lookbehind
MatchesAt_NoLookbehind(s, i) ==
    /\ i < Len(s)
    /\ s[i] = ":"
    /\ IsIdentStart(s[i + 1])

\* the regex /(?<!:):([a-zA-Z_][a-zA-Z0-9_]*)/ matches at position i
MatchesAt(s, i) ==
    /\ i < Len(s)
    /\ s[i] = ":"
    /\ (i = 1 \/ s[i - 1] # ":")
    /\ IsIdentStart(s[i + 1])

\* last position of the (greedy) identifier starting at position j
RECURSIVE IdentEnd(_, _)
IdentEnd(s, j) ==
    IF j < Len(s) /\ IsIdentChar(s[j + 1]) THEN IdentEnd(s, j + 1) ELSE j

\* mutant of ReplaceFrom: every occurrence takes a new position
RECURSIVE ReplaceFrom_PositionPerOccurrence(_, _, _, _)
ReplaceFrom_PositionPerOccurrence(s, i, out, order) ==
    IF i > Len(s) THEN [sql |-> out, parameterOrder |-> order]
    ELSE IF MatchesAt(s, i)
    THEN LET e == IdentEnd(s, i + 1)
             paramName == SubSeq(s, i + 1, e)
             order2 == Append(order, paramName)
             position == Len(order2)
         IN ReplaceFrom_PositionPerOccurrence(s, e + 1,
                out \o <<"$">> \o DecimalChars(position), order2)
    ELSE ReplaceFrom_PositionPerOccurrence(s, i + 1, Append(out, s[i]), order)

\* String.replace with the global regex: scan from position i with the
\* output so far and the parameter order so far
RECURSIVE ReplaceFrom(_, _, _, _)
ReplaceFrom(s, i, out, order) ==
    IF i > Len(s) THEN [sql |-> out, parameterOrder |-> order]
    ELSE IF MatchesAt(s, i)
    THEN LET e == IdentEnd(s, i + 1)
             paramName == SubSeq(s, i + 1, e)
             order2 == IF IndexOf(order, paramName) = 0
                       THEN Append(order, paramName) ELSE order
             position == IndexOf(order2, paramName)
         IN ReplaceFrom(s, e + 1, out \o <<"$">> \o DecimalChars(position), order2)
    ELSE ReplaceFrom(s, i + 1, Append(out, s[i]), order)

parseNamedParameters(sqlWithNamedParams) ==
    ReplaceFrom(sqlWithNamedParams, 1, <<>>, <<>>)

\* ------------------------------------------------------------------------
\* jsonSchemaValidator.ts
\* ------------------------------------------------------------------------

\* the `type` keywords Ajv's meta-schema accepts (simpleTypes)
JsonSchemaTypes ==
    {"array", "boolean", "integer", "null", "number", "object", "string"}

\* mutant of AjvCompiles: any `type` value compiles
AjvCompiles_AnyType(schema) == TRUE

\* ajv.compile(schema) does not throw: every declared `type` is a simple
\* type ("" stands for an omitted `type` keyword)
AjvCompiles(schema) ==
    /\ schema.type \in JsonSchemaTypes \cup {""}
    /\ \A p \in schema.properties : p.type \in JsonSchemaTypes \cup {""}

validateJsonSchema(schema) ==
    IF schema.json # "object" THEN FALSE ELSE AjvCompiles(schema)


\* parameter_schema values the model's save_query calls carry
\* { type: 'object', properties: {} }
SchemaEmpty ==
    [json |-> "object", type |-> "object", properties |-> {}, required |-> {}]

\* { type: 'object', properties: { x: { type: 'integer' } }, required: ['x'] }
SchemaX ==
    [json |-> "object", type |-> "object",
     properties |-> {[key |-> "x", type |-> "integer"]}, required |-> {"x"}]

\* { type: 'invalid_type' }
SchemaInvalidType ==
    [json |-> "object", type |-> "invalid_type", properties |-> {}, required |-> {}]

\* ------------------------------------------------------------------------
\* types.ts: SavedToolConfig
\* ------------------------------------------------------------------------

NoConfig ==
    [name |-> "", description |-> "", sql_query |-> <<>>, sql_prepared |-> <<>>,
     parameter_schema |-> SchemaEmpty, parameter_order |-> <<>>]

\* saveQuery.ts handler: the definition built from the request
BuildToolConfig(params) ==
    LET parsed == parseNamedParameters(params.sql_query)
    IN [name |-> params.tool_name,
        description |-> params.description,
        sql_query |-> params.sql_query,
        sql_prepared |-> parsed.sql,
        parameter_schema |-> params.parameter_schema,
        parameter_order |-> parsed.parameterOrder]

\* ------------------------------------------------------------------------
\* storage.ts: the Persistence Store.  files[n] is the content of
\* TOOLS_DIR/<n>.json: absent, a serialized definition ("record"), JSON that
\* is not a definition ("invalid"), or text that is not JSON ("unparseable").
\* ------------------------------------------------------------------------

\* JSON.stringify(config, null, 2): the members of the object in property
\* order, each a key and its value
JSONStringify(config) ==
    <<<<"name", config.name>>,
      <<"description", config.description>>,
      <<"sql_query", config.sql_query>>,
      <<"sql_prepared", config.sql_prepared>>,
      <<"parameter_schema", config.parameter_schema>>,
      <<"parameter_order", config.parameter_order>>>>

\* the value of the member `key` of a JSON text, "undefined" when missing
Member(jsonData, key) ==
    IF \E i \in 1..Len(jsonData) : jsonData[i][1] = key
    THEN jsonData[CHOOSE i \in 1..Len(jsonData) :
                     /\ jsonData[i][1] = key
                     /\ \A j \in (i + 1)..Len(jsonData) : jsonData[j][1] # key][2]
    ELSE "undefined"

\* JSON.parse(jsonData) as SavedToolConfig
JSONParse(jsonData) ==
    [name |-> Member(jsonData, "name"),
     description |-> Member(jsonData, "description"),
     sql_query |-> Member(jsonData, "sql_query"),
     sql_prepared |-> Member(jsonData, "sql_prepared"),
     parameter_schema |-> Member(jsonData, "parameter_schema"),
     parameter_order |-> Member(jsonData, "parameter_order")]

\* A file is kept as the value its text denotes: a record file holds what
\* JSON.parse gives for the text JSON.stringify wrote.
AbsentFile == [kind |-> "absent", config |-> NoConfig]
RecordFile(config) == [kind |-> "record", config |-> JSONParse(JSONStringify(config))]
InvalidFile == [kind |-> "invalid", config |-> NoConfig]
UnparseableFile == [kind |-> "unparseable", config |-> NoConfig]

\* existsSync(join(TOOLS_DIR, `${toolName}.json`)); the model keeps the files
\* of StoreNames, no other file is ever created
existsSync(fs, toolName) ==
    IF toolName \in DOMAIN fs THEN fs[toolName].kind # "absent" ELSE FALSE

\* isValidToolConfig applied to the parsed content of a file
isValidToolConfig(file) == file.kind = "record"

\* mutant of saveToolToFile: the request is merged into the record that is
\* already there, whose derived fields stay
saveToolToFile_MergeIntoOld(fs, toolName, config, writeFails) ==
    IF writeFails = "fs"
    THEN [threw |-> TRUE, files |-> fs]
    ELSE IF writeFails = "write"
    THEN [threw |-> TRUE, files |-> [fs EXCEPT ![toolName] = UnparseableFile]]
    ELSE IF fs[toolName].kind = "record"
    THEN [threw |-> FALSE,
          files |-> [fs EXCEPT ![toolName] =
              RecordFile([fs[toolName].config EXCEPT
                  !.description = config.description,
                  !.sql_query = config.sql_query,
                  !.parameter_schema = config.parameter_schema])]]
    ELSE [threw |-> FALSE, files |-> [fs EXCEPT ![toolName] = RecordFile(config)]]

\* saveToolToFile: writeFileSync replaces the whole file, or throws.  It
\* throws either before the file is touched (writeFails = "fs": the open
\* fails, the file is as it was) or after the open has truncated it
\* (writeFails = "write": the write fails, a file that does not parse is
\* left under the name, whether or not one was there).
saveToolToFile(fs, toolName, config, writeFails) ==
    IF writeFails = "fs"
    THEN [threw |-> TRUE, files |-> fs]
    ELSE IF writeFails = "write"
    THEN [threw |-> TRUE, files |-> [fs EXCEPT ![toolName] = UnparseableFile]]
    ELSE [threw |-> FALSE, files |-> [fs EXCEPT ![toolName] = RecordFile(config)]]

\* loadToolFromFile: null for a missing file, throws for a file that does
\* not parse or does not pass isValidToolConfig
loadToolFromFile(fs, toolName) ==
    IF ~existsSync(fs, toolName)
    THEN [threw |-> FALSE, isNull |-> TRUE, config |-> NoConfig]
    ELSE IF fs[toolName].kind = "unparseable" \/ ~isValidToolConfig(fs[toolName])
    THEN [threw |-> TRUE, isNull |-> FALSE, config |-> NoConfig]
    ELSE [threw |-> FALSE, isNull |-> FALSE, config |-> fs[toolName].config]

\* loadAllTools: one entry per *.json file, throws when any file fails to load
loadAllTools(fs) ==
    LET present == {n \in DOMAIN fs : existsSync(fs, n)}
    IN IF \E n \in present : loadToolFromFile(fs, n).threw
       THEN [threw |-> TRUE, tools |-> {}]
       ELSE [threw |-> FALSE, tools |-> present]

\* deleteToolFile: no-op for a missing file, else unlinkSync, which may throw
deleteToolFile(fs, toolName, unlinkFails) ==
    IF ~existsSync(fs, toolName) THEN [threw |-> FALSE, files |-> fs]
    ELSE IF unlinkFails THEN [threw |-> TRUE, files |-> fs]
    ELSE [threw |-> FALSE, files |-> [fs EXCEPT ![toolName] = AbsentFile]]

\* ------------------------------------------------------------------------
\* storage.ts, the content of a file in detail.  A parsed JSON value is
\* given by its kind; a record's fields by theirs, an array also by the
\* kinds of its elements.
\* ------------------------------------------------------------------------

JsonKinds == {"string", "number", "boolean", "null", "object", "array", "undefined"}

\* typeof v
TypeOf(kind) == IF kind \in {"null", "object", "array"} THEN "object" ELSE kind

Field(kind) == [json |-> kind, items |-> <<>>]

ArrayOf(items) == [json |-> "array", items |-> items]

ConfigFields == {"name", "description", "sql_query", "sql_prepared",
                 "parameter_schema", "parameter_order"}

\* what JSON.stringify of a SavedToolConfig parses back to
WellFormedContent ==
    [json |-> "object", name |-> Field("string"), description |-> Field("string"),
     sql_query |-> Field("string"), sql_prepared |-> Field("string"),
     parameter_schema |-> Field("object"),
     parameter_order |-> ArrayOf(<<"string">>)]

\* a parsed value that is not an object with fields on it
Bare(kind) ==
    [json |-> kind, name |-> Field("undefined"), description |-> Field("undefined"),
     sql_query |-> Field("undefined"), sql_prepared |-> Field("undefined"),
     parameter_schema |-> Field("undefined"),
     parameter_order |-> Field("undefined")]

\* isValidToolConfig, lines 98-111
isValidToolConfigContent(config) ==
    /\ TypeOf(config.json) = "object"
    /\ config.json # "null"
    /\ TypeOf(config.name.json) = "string"
    /\ TypeOf(config.description.json) = "string"
    /\ TypeOf(config.sql_query.json) = "string"
    /\ TypeOf(config.sql_prepared.json) = "string"
    /\ TypeOf(config.parameter_schema.json) = "object"
    /\ config.parameter_order.json = "array"
    /\ \A i \in 1..Len(config.parameter_order.items) :
         TypeOf(config.parameter_order.items[i]) = "string"

\* a file of the tools directory: whether it is there, whether readFileSync
\* returns its text, whether JSON.parse accepts the text, and the value
DiskFile(exists, readable, parses, content) ==
    [exists |-> exists, readable |-> readable, parses |-> parses,
     content |-> content]

\* mutant of loadToolFromDisk: a file that cannot be read or parsed counts
\* as no record
loadToolFromDisk_CorruptIsNull(file) ==
    IF ~file.exists \/ ~file.readable \/ ~file.parses
    THEN [threw |-> FALSE, isNull |-> TRUE, config |-> Bare("null")]
    ELSE IF ~isValidToolConfigContent(file.content)
    THEN [threw |-> TRUE, isNull |-> FALSE, config |-> Bare("null")]
    ELSE [threw |-> FALSE, isNull |-> FALSE, config |-> file.content]

\* loadToolFromFile, lines 32-52, on the file of the name
loadToolFromDisk(file) ==
    IF ~file.exists
    THEN [threw |-> FALSE, isNull |-> TRUE, config |-> Bare("null")]
    ELSE IF ~file.readable \/ ~file.parses
    THEN [threw |-> TRUE, isNull |-> FALSE, config |-> Bare("null")]
    ELSE IF ~isValidToolConfigContent(file.content)
    THEN [threw |-> TRUE, isNull |-> FALSE, config |-> Bare("null")]
    ELSE [threw |-> FALSE, isNull |-> FALSE, config |-> file.content]

\* the entries readdirSync can list: a stem and an extension; the stems
\* are tool names, which hold no '.json' themselves
EntryNames ==
    {[stem |-> "tool1", ext |-> ".json"], [stem |-> "tool2", ext |-> ".json"],
     [stem |-> "readme", ext |-> ".txt"]}

\* file.endsWith('.json')
EndsWithJson(entry) == entry.ext = ".json"

\* file.replace('.json', '')
ToolNameOf(entry) == entry.stem

\* mutant of loadAllToolsFromDisk: a record that fails to load is left out
loadAllToolsFromDisk_SkipFailed(dir) ==
    LET jsonEntries == {e \in DOMAIN dir.entries : EndsWithJson(e)}
        loaded == {e \in jsonEntries :
                     /\ ~loadToolFromDisk(dir.entries[e]).threw
                     /\ ~loadToolFromDisk(dir.entries[e]).isNull}
    IN IF ~dir.exists THEN [threw |-> FALSE, tools |-> <<>>]
       ELSE IF dir.readdirFails THEN [threw |-> TRUE, tools |-> <<>>]
       ELSE [threw |-> FALSE,
             tools |-> [n \in {ToolNameOf(e) : e \in loaded} |->
                          LET e == CHOOSE e \in loaded : ToolNameOf(e) = n
                          IN loadToolFromDisk(dir.entries[e]).config]]

\* loadAllTools, lines 54-80, on a listing of the tools directory: tools is
\* the returned Map; a listed entry for which loadToolFromFile returns null
\* (existsSync does not find it) is not set in the Map (`if (config)`)
loadAllToolsFromDisk(dir) ==
    LET jsonEntries == {e \in DOMAIN dir.entries : EndsWithJson(e)}
        loaded == {e \in jsonEntries : ~loadToolFromDisk(dir.entries[e]).isNull}
    IN IF ~dir.exists THEN [threw |-> FALSE, tools |-> <<>>]
       ELSE IF dir.readdirFails THEN [threw |-> TRUE, tools |-> <<>>]
       ELSE IF \E e \in jsonEntries : loadToolFromDisk(dir.entries[e]).threw
       THEN [threw |-> TRUE, tools |-> <<>>]
       ELSE [threw |-> FALSE,
             tools |-> [n \in {ToolNameOf(e) : e \in loaded} |->
                          LET e == CHOOSE e \in loaded : ToolNameOf(e) = n
                          IN loadToolFromDisk(dir.entries[e]).config]]

\* ------------------------------------------------------------------------
\* The MCP server's tool table (McpServer of the SDK, driven from server.ts,
\* saveQuery.ts and deleteSavedQuery.ts).  serverTools[n] is the tool the
\* server dispatches calls of name n to; a dynamic tool carries the handle
\* (RegisteredTool object identity) returned by registerTool and the
\* definition its callback was built from by createDynamicToolHandler.
\* registeredTools[n] is the handle the Registry map holds for n, 0 for none.
\* ------------------------------------------------------------------------

NoTool == [kind |-> "none", handle |-> 0, callback |-> NoConfig]
CoreTool == [kind |-> "core", handle |-> 0, callback |-> NoConfig]
DynamicTool(h, config) == [kind |-> "dynamic", handle |-> h, callback |-> config]

NoHandle == 0

\* registeredTools.get(toolName), NoHandle for undefined
RegistryGet(reg, toolName) ==
    IF toolName \in DOMAIN reg THEN reg[toolName] ELSE NoHandle

\* registeredTools.has(toolName)
RegistryHas(reg, toolName) == RegistryGet(reg, toolName) # NoHandle

\* handles some live object refers to: the server's table or the Registry
LiveHandles(srv, reg) ==
    {srv[n].handle : n \in DOMAIN srv} \cup {reg[n] : n \in DOMAIN reg}

\* a new RegisteredTool object: distinct from every live one
NewHandle(srv, reg) ==
    CHOOSE h \in 1..(2 * Cardinality(DOMAIN srv) + 1) :
        /\ h \notin LiveHandles(srv, reg)
        /\ \A g \in 1..(h - 1) : g \in LiveHandles(srv, reg)

\* dynamicToolHandler.ts createDynamicToolHandler: the returned closure
\* captures the definition it was built from
createDynamicToolHandler(toolConfig) == toolConfig

\* server.registerTool(name, config, handler): the SDK refuses a name that
\* is already registered; `fails` injects any other failure of the call
serverRegisterTool(srv, reg, toolName, callback, fails) ==
    IF fails \/ srv[toolName].kind # "none"
    THEN [threw |-> TRUE, handle |-> NoHandle, serverTools |-> srv]
    ELSE LET h == NewHandle(srv, reg)
         IN [threw |-> FALSE, handle |-> h,
             serverTools |-> [srv EXCEPT ![toolName] = DynamicTool(h, callback)]]

\* RegisteredTool.update({ ..., callback }): replaces the behaviour of the
\* tool that owns the handle, keeps the handle
handleUpdate(srv, h, callback, fails) ==
    IF fails THEN [threw |-> TRUE, serverTools |-> srv]
    ELSE [threw |-> FALSE,
          serverTools |-> [n \in DOMAIN srv |->
              IF srv[n].kind = "dynamic" /\ srv[n].handle = h
              THEN DynamicTool(h, callback) ELSE srv[n]]]

\* RegisteredTool.remove(): the server forgets the tool that owns the handle
handleRemove(srv, h, fails) ==
    IF fails THEN [threw |-> TRUE, serverTools |-> srv]
    ELSE [threw |-> FALSE,
          serverTools |-> [n \in DOMAIN srv |->
              IF srv[n].kind = "dynamic" /\ srv[n].handle = h
              THEN NoTool ELSE srv[n]]]

\* ------------------------------------------------------------------------
\* Outcome of a handler body run under withErrorHandling: the state it
\* leaves (st), whether it threw, the error message, the last stage passed
\* to log(), and the collaborator calls it made, in order.
\* ------------------------------------------------------------------------

Returned(st, value, stage, calls) ==
    [threw |-> FALSE, message |-> value, stage |-> stage, st |-> st, calls |-> calls]

Threw(st, message, stage, calls) ==
    [threw |-> TRUE, message |-> message, stage |-> stage, st |-> st, calls |-> calls]

\* responses.ts withErrorHandling / createSuccessResponse / createErrorResponse
withErrorHandling(operation, body) ==
    IF body.threw
    THEN [isError |-> TRUE, operation |-> operation, stage |-> body.stage,
          message |-> body.message]
    ELSE [isError |-> FALSE, operation |-> "", stage |-> "", message |-> body.message]

\* responses.ts in full: texts are sequences of pieces.  A body fn is given
\* by its style ("sync": returns a string or throws; "async": an async
\* function, whose throw is a rejection; "promise": a plain function that
\* throws or returns a promise that resolves or rejects), the messages it
\* passes to log() in order, its outcome and the value or error it ends with.

createSuccessResponse(message) ==
    [content |-> <<[type |-> "text", text |-> <<message>>]>>, isError |-> FALSE]

createErrorResponse(operation, error) ==
    LET errorMessage == IF error.instanceOfError THEN error.message
                        ELSE "Unknown error"
    IN [content |-> <<[type |-> "text",
                       text |-> <<"Error ">> \o operation \o <<": ", errorMessage>>]>>,
        isError |-> TRUE]

\* the `stage` variable after the log() calls of the body
RECURSIVE StageAfter(_, _)
StageAfter(stage, logs) ==
    IF logs = <<>> THEN stage
    ELSE StageAfter(<<" while ", Head(logs)>>, Tail(logs))

\* fn(log) threw before returning
ThrewSynchronously(fn) ==
    fn.style \in {"sync", "promise"} /\ fn.outcome = "throw"

\* fn(log) returned a promise that rejects
Rejects(fn) ==
    \/ fn.style = "async" /\ fn.outcome \in {"throw", "reject"}
    \/ fn.style = "promise" /\ fn.outcome = "reject"

\* mutant of withErrorHandlingCall: the promise chain has no catch
withErrorHandlingCall_NoAsyncCatch(operation, fn) ==
    LET stage == StageAfter(<<>>, fn.logs)
    IN IF ThrewSynchronously(fn)
       THEN [escaped |-> FALSE, isPromise |-> FALSE,
             response |-> createErrorResponse(operation \o stage, fn.error)]
       ELSE IF Rejects(fn)
       THEN [escaped |-> TRUE, isPromise |-> TRUE,
             response |-> createSuccessResponse("")]
       ELSE [escaped |-> FALSE, isPromise |-> fn.style # "sync",
             response |-> createSuccessResponse(fn.value)]

\* withErrorHandling(operation, fn): what the caller gets, directly or as
\* the value the returned promise resolves to; `escaped` when an exception
\* or a rejection reaches the caller instead
withErrorHandlingCall(operation, fn) ==
    LET stage == StageAfter(<<>>, fn.logs)
    IN IF ThrewSynchronously(fn)
       THEN [escaped |-> FALSE, isPromise |-> FALSE,
             response |-> createErrorResponse(operation \o stage, fn.error)]
       ELSE IF Rejects(fn)
       THEN [escaped |-> FALSE, isPromise |-> TRUE,
             response |-> createErrorResponse(operation \o stage, fn.error)]
       ELSE [escaped |-> FALSE, isPromise |-> fn.style # "sync",
             response |-> createSuccessResponse(fn.value)]

\* ------------------------------------------------------------------------
\* saveQuery.ts
\* ------------------------------------------------------------------------

\* params.overwrite ?? false
Overwrite(params) == params.overwrite = "true"

\* registerToolWithServer: server.registerTool, then registeredTools.set
registerToolWithServer(st, toolName, toolConfig, serverFails) ==
    LET dynamicHandler == createDynamicToolHandler(toolConfig)
        r == serverRegisterTool(st.serverTools, st.registeredTools, toolName,
                                dynamicHandler, serverFails)
    IN IF r.threw
       THEN [threw |-> TRUE, message |-> "registerTool failed", st |-> st,
             calls |-> <<"registerTool">>]
       ELSE [threw |-> FALSE, message |-> "",
             st |-> [st EXCEPT !.serverTools = r.serverTools,
                               !.registeredTools[toolName] = r.handle],
             calls |-> <<"registerTool", "registeredTools.set">>]

\* mutant of updateExistingTool: the tool is removed and registered again
updateExistingTool_RemoveAndReRegister(st, toolName, toolConfig, serverFails) ==
    LET existingTool == RegistryGet(st.registeredTools, toolName)
        rm == handleRemove(st.serverTools, existingTool, serverFails)
        r == serverRegisterTool(rm.serverTools, st.registeredTools, toolName,
                                createDynamicToolHandler(toolConfig), FALSE)
    IN IF existingTool = NoHandle
       THEN [threw |-> TRUE, message |-> "not found for update", st |-> st,
             calls |-> <<>>]
       ELSE IF rm.threw
       THEN [threw |-> TRUE, message |-> "update failed", st |-> st,
             calls |-> <<"remove">>]
       ELSE [threw |-> FALSE, message |-> "",
             st |-> [st EXCEPT !.serverTools = r.serverTools,
                               !.registeredTools[toolName] = r.handle],
             calls |-> <<"remove", "registerTool", "registeredTools.set">>]

\* updateExistingTool: registeredTools.get, then existingTool.update
updateExistingTool(st, toolName, toolConfig, serverFails) ==
    LET existingTool == RegistryGet(st.registeredTools, toolName)
    IN IF existingTool = NoHandle
       THEN [threw |-> TRUE, message |-> "not found for update", st |-> st,
             calls |-> <<>>]
       ELSE LET dynamicHandler == createDynamicToolHandler(toolConfig)
                u == handleUpdate(st.serverTools, existingTool, dynamicHandler, serverFails)
            IN IF u.threw
               THEN [threw |-> TRUE, message |-> "update failed", st |-> st,
                     calls |-> <<"update">>]
               ELSE [threw |-> FALSE, message |-> "",
                     st |-> [st EXCEPT !.serverTools = u.serverTools],
                     calls |-> <<"update">>]

\* mutant of isConflict: the overwrite flag is read the wrong way round
isConflict_FlagInverted(toolExists, overwrite) == toolExists /\ overwrite

\* handler, line 80: the request is refused as a conflict
isConflict(toolExists, overwrite) == toolExists /\ ~overwrite

\* mutant of persistThenRegister: the tool is registered or updated first
\* and persisted afterwards
persistThenRegister_RegisterFirst(st, toolName, toolConfig, isCreate, isUpdate, fault) ==
    LET r == IF isCreate
             THEN registerToolWithServer(st, toolName, toolConfig, fault = "server")
             ELSE updateExistingTool(st, toolName, toolConfig, fault = "server")
        stage == IF isCreate THEN "registering new tool in MCP server"
                 ELSE "updating existing tool in MCP server"
        saved == saveToolToFile(r.st.files, toolName, toolConfig, fault)
    IN IF r.threw THEN Threw(r.st, r.message, stage, r.calls)
       ELSE IF saved.threw
       THEN Threw([r.st EXCEPT !.files = saved.files], "Failed to save tool", "persisting tool to file",
                  r.calls \o <<"saveToolToFile">>)
       ELSE Returned([r.st EXCEPT !.files = saved.files],
                     IF isCreate THEN "Successfully created" ELSE "Successfully updated",
                     "persisting tool to file", r.calls \o <<"saveToolToFile">>)

\* handler, lines 102-118: persist first, then register or update
persistThenRegister(st, toolName, toolConfig, isCreate, isUpdate, fault) ==
    LET saved == saveToolToFile(st.files, toolName, toolConfig, fault)
        st1 == [st EXCEPT !.files = saved.files]
    IN IF saved.threw
       THEN Threw(st1, "Failed to save tool", "persisting tool to file",
                  <<"saveToolToFile">>)
       ELSE IF isCreate
       THEN LET r == registerToolWithServer(st1, toolName, toolConfig, fault = "server")
            IN IF r.threw
               THEN Threw(r.st, r.message, "registering new tool in MCP server",
                          <<"saveToolToFile">> \o r.calls)
               ELSE Returned(r.st, "Successfully created",
                             "registering new tool in MCP server",
                             <<"saveToolToFile">> \o r.calls)
       ELSE IF isUpdate
       THEN LET u == updateExistingTool(st1, toolName, toolConfig, fault = "server")
            IN IF u.threw
               THEN Threw(u.st, u.message, "updating existing tool in MCP server",
                          <<"saveToolToFile">> \o u.calls)
               ELSE Returned(u.st, "Successfully updated",
                             "updating existing tool in MCP server",
                             <<"saveToolToFile">> \o u.calls)
       ELSE Threw(st1, "Unexpected state in save_query handler",
                  "persisting tool to file", <<"saveToolToFile">>)

\* mutant of saveQueryBody: a record on disk also counts as an existing tool
saveQueryBody_StoreDecides(st, params, fault) ==
    LET toolExists == \/ RegistryHas(st.registeredTools, params.tool_name)
                      \/ existsSync(st.files, params.tool_name)
        isUpdate == toolExists /\ Overwrite(params)
        isCreate == ~toolExists
    IN IF isConflict(toolExists, Overwrite(params))
       THEN Threw(st, "already exists", "", <<>>)
       ELSE IF ~validateJsonSchema(params.parameter_schema)
       THEN Threw(st, "Invalid parameter_schema", "validating parameter schema", <<>>)
       ELSE persistThenRegister(st, params.tool_name, BuildToolConfig(params),
                                isCreate, isUpdate, fault)

\* mutant of saveQueryBody: the schema is validated after the definition
\* has been persisted and registered
saveQueryBody_ValidateLast(st, params, fault) ==
    LET toolExists == RegistryHas(st.registeredTools, params.tool_name)
        isUpdate == toolExists /\ Overwrite(params)
        isCreate == ~toolExists
        r == persistThenRegister(st, params.tool_name, BuildToolConfig(params),
                                 isCreate, isUpdate, fault)
    IN IF isConflict(toolExists, Overwrite(params))
       THEN Threw(st, "already exists", "", <<>>)
       ELSE IF r.threw THEN r
       ELSE IF ~validateJsonSchema(params.parameter_schema)
       THEN Threw(r.st, "Invalid parameter_schema", "validating parameter schema",
                  r.calls)
       ELSE r

\* handler of save_query (the body passed to withErrorHandling)
saveQueryBody(st, params, fault) ==
    LET toolExists == RegistryHas(st.registeredTools, params.tool_name)
        isUpdate == toolExists /\ Overwrite(params)
        isCreate == ~toolExists
    IN IF isConflict(toolExists, Overwrite(params))
       THEN Threw(st, "already exists", "", <<>>)
       ELSE IF ~validateJsonSchema(params.parameter_schema)
       THEN Threw(st, "Invalid parameter_schema", "validating parameter schema", <<>>)
       ELSE persistThenRegister(st, params.tool_name, BuildToolConfig(params),
                                isCreate, isUpdate, fault)

\* ------------------------------------------------------------------------
\* deleteSavedQuery.ts
\* ------------------------------------------------------------------------

\* mutant of isProtected: the management tools are missing from the set
isProtected_ManagementMissing(toolName) ==
    toolName \in {"execute_sql_query", "list_schemas", "list_tables",
                  "describe_table", "list_views", "describe_view"}

\* handler, line 38
isProtected(toolName) == toolName \in PROTECTED_TOOLS

\* mutant of removeThenDelete: the map entry is deleted before remove()
removeThenDelete_MapFirst(st, toolName, registeredTool, fault) ==
    LET st0 == [st EXCEPT !.registeredTools[toolName] = NoHandle]
        rm == handleRemove(st0.serverTools, registeredTool, fault = "server")
        st1 == [st0 EXCEPT !.serverTools = rm.serverTools]
        del == deleteToolFile(st1.files, toolName, fault = "fs")
        calls == <<"registeredTools.delete", "remove", "deleteToolFile">>
    IN IF rm.threw
       THEN Threw(st0, "remove failed", "removing tool from MCP server",
                  <<"registeredTools.delete", "remove">>)
       ELSE IF del.threw
       THEN Threw(st1, "Failed to delete tool file",
                  "deleting tool file from storage", calls)
       ELSE Returned([st1 EXCEPT !.files = del.files], "Successfully deleted",
                     "deleting tool file from storage", calls)

\* mutant of removeThenDelete: a failure to delete the file is swallowed
removeThenDelete_SwallowUnlink(st, toolName, registeredTool, fault) ==
    LET rm == handleRemove(st.serverTools, registeredTool, fault = "server")
        st1 == [st EXCEPT !.serverTools = rm.serverTools,
                          !.registeredTools[toolName] = NoHandle]
        del == deleteToolFile(st1.files, toolName, fault = "fs")
        calls == <<"remove", "registeredTools.delete", "deleteToolFile">>
    IN IF rm.threw
       THEN Threw(st, "remove failed", "removing tool from MCP server", <<"remove">>)
       ELSE Returned([st1 EXCEPT !.files = del.files], "Successfully deleted",
                     "deleting tool file from storage", calls)

\* handler, lines 48-59: remove from the server, then from the map, then
\* delete the file
removeThenDelete(st, toolName, registeredTool, fault) ==
    LET rm == handleRemove(st.serverTools, registeredTool, fault = "server")
    IN IF rm.threw
       THEN Threw(st, "remove failed", "removing tool from MCP server", <<"remove">>)
       ELSE LET st1 == [st EXCEPT !.serverTools = rm.serverTools,
                                  !.registeredTools[toolName] = NoHandle]
                del == deleteToolFile(st1.files, toolName, fault = "fs")
                calls == <<"remove", "registeredTools.delete", "deleteToolFile">>
            IN IF del.threw
               THEN Threw(st1, "Failed to delete tool file",
                          "deleting tool file from storage", calls)
               ELSE Returned([st1 EXCEPT !.files = del.files], "Successfully deleted",
                             "deleting tool file from storage", calls)

\* mutant of deleteSavedQueryBody: for a name that is not registered the
\* handler falls back to the Persistence Store and deletes a record it finds
deleteSavedQueryBody_StoreFallback(st, params, fault) ==
    IF isProtected(params.tool_name)
    THEN Threw(st, "Cannot delete core tool", "", <<>>)
    ELSE LET registeredTool == RegistryGet(st.registeredTools, params.tool_name)
             del == deleteToolFile(st.files, params.tool_name, fault = "fs")
         IN IF registeredTool = NoHandle
            THEN IF existsSync(st.files, params.tool_name) /\ ~del.threw
                 THEN Returned([st EXCEPT !.files = del.files], "Successfully deleted",
                               "deleting tool file from storage", <<"deleteToolFile">>)
                 ELSE Threw(st, "not found", "", <<>>)
            ELSE removeThenDelete(st, params.tool_name, registeredTool, fault)

\* handler of delete_saved_query (the body passed to withErrorHandling)
deleteSavedQueryBody(st, params, fault) ==
    IF isProtected(params.tool_name)
    THEN Threw(st, "Cannot delete core tool", "", <<>>)
    ELSE LET registeredTool == RegistryGet(st.registeredTools, params.tool_name)
         IN IF registeredTool = NoHandle
            THEN Threw(st, "not found", "", <<>>)
            ELSE removeThenDelete(st, params.tool_name, registeredTool, fault)

\* ------------------------------------------------------------------------
\* server.ts createServer and dynamicToolHandler.ts registerAllTools
\* ------------------------------------------------------------------------

\* registerAllTools, the loop body applied to the tools still to register
RECURSIVE RegisterLoop(_, _, _)
RegisterLoop(st, fs, todo) ==
    IF todo = {} THEN [threw |-> FALSE, st |-> st]
    ELSE LET toolName == CHOOSE n \in todo : TRUE
             toolConfig == fs[toolName].config
             r == serverRegisterTool(st.serverTools, st.registeredTools, toolName,
                                     createDynamicToolHandler(toolConfig), FALSE)
         IN IF r.threw THEN [threw |-> TRUE, st |-> st]
            ELSE RegisterLoop([st EXCEPT !.serverTools = r.serverTools,
                                         !.registeredTools[toolName] = r.handle],
                              fs, todo \ {toolName})

registerAllTools(st) ==
    LET savedTools == loadAllTools(st.files)
    IN IF savedTools.threw THEN [threw |-> TRUE, st |-> st]
       ELSE RegisterLoop(st, st.files, savedTools.tools)

\* createServer: a fresh server with the core tools of the setting, then
\* the saved tools; a throw here ends the process at startup
createServer(fs, disableSetting) ==
    LET fresh == [files |-> fs,
                  registeredTools |-> [n \in StoreNames |-> NoHandle],
                  serverTools |-> [n \in StoreNames |->
                      IF n \in CoreToolsFor(disableSetting) THEN CoreTool ELSE NoTool]]
        r == registerAllTools(fresh)
    IN IF r.threw
       THEN [threw |-> TRUE,
             st |-> [fresh EXCEPT !.serverTools = [n \in StoreNames |-> NoTool]]]
       ELSE [threw |-> FALSE, st |-> r.st]

\* ------------------------------------------------------------------------
\* Requests of the model
\* ------------------------------------------------------------------------

\* the collaborator of the call that throws: none, the file system call
\* before it touches the file ("fs": writeFileSync / unlinkSync), the write
\* of writeFileSync after the file was opened and truncated ("write"), or
\* the MCP server call (registerTool / update / remove)
Faults == {"none", "fs", "write", "server"}

\* values of the optional `overwrite` argument
OverwriteValues == {"true", "false", "undefined"}

NoParams ==
    [tool_name |-> "", description |-> "", sql_query |-> <<>>,
     parameter_schema |-> SchemaEmpty, overwrite |-> "undefined"]

\* 'a=:x'
SqlOne == <<"a", "=", ":", "x">>
\* ':x::i=:y'
SqlTwo == <<":", "x", ":", ":", "i", "=", ":", "y">>

\* the definitions a save_query call can carry: two valid ones and one with
\* a parameter_schema that is not a JSON Schema
Definitions ==
    {[description |-> "Get user", sql_query |-> SqlOne, parameter_schema |-> SchemaX],
     [description |-> "Updated description", sql_query |-> SqlTwo,
      parameter_schema |-> SchemaEmpty],
     [description |-> "Get user", sql_query |-> SqlOne,
      parameter_schema |-> SchemaInvalidType]}

SaveParams ==
    {[tool_name |-> n, description |-> d.description, sql_query |-> d.sql_query,
      parameter_schema |-> d.parameter_schema, overwrite |-> o] :
        n \in StoreNames, d \in Definitions, o \in OverwriteValues}

DeleteParams == {[NoParams EXCEPT !.tool_name = n] : n \in Names}

\* a record left in the data directory by an earlier run of the program
InitialRecord(n) ==
    RecordFile(BuildToolConfig(
        [tool_name |-> n, description |-> "Get user", sql_query |-> SqlOne,
         parameter_schema |-> SchemaX, overwrite |-> "undefined"]))

\* contents of the data directory when the process first starts
InitialDirectories ==
    {[n \in StoreNames |->
        IF kinds[n] = "absent" THEN AbsentFile
        ELSE IF kinds[n] = "invalid" THEN InvalidFile
        ELSE IF kinds[n] = "unparseable" THEN UnparseableFile
        ELSE InitialRecord(n)] :
     kinds \in [StoreNames -> {"absent", "invalid", "unparseable", "record"}]}

\* ------------------------------------------------------------------------
\* State
\* ------------------------------------------------------------------------

VARIABLES
    phase,            \* "running", or "crashed" when createServer threw
    files,            \* the Persistence Store: tool name -> file content
    registeredTools,  \* the Registry: tool name -> handle, NoHandle for none
    serverTools,      \* the MCP server's tool table
    pre,              \* files / registeredTools / serverTools when the last
                      \* call was entered
    last,             \* the last call: request, fault that fired, response,
                      \* collaborator calls in order
    repeat,           \* TRUE when the last call repeated the call before it
    pure,             \* a library function applied on its own: the function,
                      \* its input and its result
    tasks,            \* the calls the event loop has accepted, in order of
                      \* arrival: request, position in the handler, result
    running           \* the task executing on the thread, NoTask for none

vars == <<phase, files, registeredTools, serverTools, pre, last, repeat, pure,
          tasks, running>>

\* the thread is free
NoTask == 0

\* no library function is being applied on its own
NoPure == [fn |-> "none", input |-> <<>>, output |-> <<>>]

State == [files |-> files, registeredTools |-> registeredTools,
          serverTools |-> serverTools]

\* The call `params` (with fired fault `fired`) repeats the call recorded in
\* `prev`: both are save_query calls with overwrite=true and the same
\* request, and either the first one returned success or no collaborator
\* failed in either of them.
IsRepeat(prev, params, fired) ==
    /\ prev.op = "save"
    /\ prev.params = params
    /\ params.overwrite = "true"
    /\ (~prev.response.isError \/ (prev.fault = "none" /\ fired = "none"))

NoResponse == [isError |-> FALSE, operation |-> "", stage |-> "", message |-> ""]

\* the injected failure, if the collaborator it names was reached; a fault
\* whose collaborator the call never reaches leaves the call identical to
\* the fault-free one, which the actions generate once
FiredFault(body, bodyWithoutFault, fault) ==
    IF fault = "none" THEN "none"
    ELSE IF body = bodyWithoutFault THEN "none" ELSE fault

\* a process that has not run createServer yet: nothing is registered
NewProcess(fs) ==
    [files |-> fs,
     registeredTools |-> [n \in DOMAIN fs |-> NoHandle],
     serverTools |-> [n \in DOMAIN fs |-> NoTool]]

StartupCall(c) ==
    [op |-> "startup", params |-> NoParams, fault |-> "none",
     response |-> [NoResponse EXCEPT !.isError = c.threw], calls |-> <<>>]

Init ==
    \E fs \in InitialDirectories, d \in DisableSettings :
       \E c \in {createServer(fs, d)} :
           /\ phase = IF c.threw THEN "crashed" ELSE "running"
           /\ files = c.st.files
           /\ registeredTools = c.st.registeredTools
           /\ serverTools = c.st.serverTools
           /\ pre = NewProcess(fs)
           /\ last = StartupCall(c)
           /\ repeat = FALSE
           /\ pure = NoPure
           /\ tasks = <<>>
           /\ running = NoTask

\* server.ts registers save_query and delete_saved_query only in the
\* default branch of DISABLE_CORE_TOOLS: a client can call them only then
ManagementToolsEnabled == serverTools["save_query"].kind = "core"

\* a client calls save_query
SaveQuery ==
    /\ phase = "running"
    /\ ManagementToolsEnabled
    /\ \E params \in SaveParams :
       \E bodyWithoutFault \in {saveQueryBody(State, params, "none")} :
       \E fault \in Faults :
       \E body \in {IF fault = "none" THEN bodyWithoutFault
                     ELSE saveQueryBody(State, params, fault)} :
        LET fired == FiredFault(body, bodyWithoutFault, fault)
        IN /\ fired = fault
           /\ files' = body.st.files
           /\ registeredTools' = body.st.registeredTools
           /\ serverTools' = body.st.serverTools
           /\ pre' = State
           /\ last' = [op |-> "save", params |-> params, fault |-> fired,
                       response |-> withErrorHandling("saving tool", body),
                       calls |-> body.calls]
           /\ repeat' = IsRepeat(last, params, fired)
    /\ UNCHANGED <<phase, pure, tasks, running>>

\* a client calls delete_saved_query
DeleteSavedQuery ==
    /\ phase = "running"
    /\ ManagementToolsEnabled
    /\ \E params \in DeleteParams :
       \E bodyWithoutFault \in {deleteSavedQueryBody(State, params, "none")} :
       \E fault \in Faults :
       \E body \in {IF fault = "none" THEN bodyWithoutFault
                     ELSE deleteSavedQueryBody(State, params, fault)} :
        LET fired == FiredFault(body, bodyWithoutFault, fault)
        IN /\ fired = fault
           /\ files' = body.st.files
           /\ registeredTools' = body.st.registeredTools
           /\ serverTools' = body.st.serverTools
           /\ pre' = State
           /\ last' = [op |-> "delete", params |-> params, fault |-> fired,
                       response |-> withErrorHandling("deleting tool", body),
                       calls |-> body.calls]
           /\ repeat' = FALSE
    /\ UNCHANGED <<phase, pure, tasks, running>>

\* the process is started again on the same data directory
Restart ==
    \E d \in DisableSettings :
       \E c \in {createServer(files, d)} :
           /\ phase' = IF c.threw THEN "crashed" ELSE "running"
           /\ files' = c.st.files
           /\ registeredTools' = c.st.registeredTools
           /\ serverTools' = c.st.serverTools
           /\ pre' = NewProcess(files)
           /\ last' = StartupCall(c)
           /\ repeat' = FALSE
           /\ UNCHANGED <<pure, tasks, running>>

Next == SaveQuery \/ DeleteSavedQuery \/ Restart

Spec == Init /\ [][Next]_vars

\* ------------------------------------------------------------------------
\* Library functions applied on their own (parameterMapper.ts,
\* jsonSchemaValidator.ts, responses.ts): no server process is involved, the
\* input is drawn from a bounded set and one action applies the function.
\* ------------------------------------------------------------------------

\* characters of the SQL texts: the placeholder colon, two letters, a digit
\* and a character that is neither
SqlAlphabet == {":", "a", "b", "1", "="}

SqlTexts == UNION {[1..n -> SqlAlphabet] : n \in 0..MaxSqlLen}

\* schema values handed to validateJsonSchema: what kind of JSON value it
\* is, its `type` keyword ("" when omitted) and its properties
SchemaInputs ==
    {[json |-> j, type |-> t, properties |-> ps, required |-> r] :
        j \in {"object", "array", "string", "null"},
        t \in {"object", "string", "", "invalid_type", "text"},
        ps \in SUBSET {[key |-> "x", type |-> "integer"],
                       [key |-> "y", type |-> "invalid_type"]},
        r \in {{}, {"x"}}}

\* bodies handed to withErrorHandling
BodyLogs == {<<>>, <<"step 1">>, <<"step 2">>, <<"step 1", "step 2">>,
             <<"step 2", "step 1">>}

BodyErrors == {[instanceOfError |-> TRUE, message |-> "boom"],
               [instanceOfError |-> TRUE, message |-> ""],
               [instanceOfError |-> FALSE, message |-> "a string"]}

BodyInputs ==
    {[style |-> st, logs |-> l, outcome |-> o, value |-> "Done", error |-> e] :
        st \in {"sync", "async", "promise"}, l \in BodyLogs,
        o \in {"return", "throw", "reject"}, e \in BodyErrors}

\* 'a=:valueOf'
SqlValueOf == <<"a", "=", ":">> \o ValueOfName
\* ':y=:x+:y'
SqlRepeated == <<":", "y", "=", ":", "x", "+", ":", "y">>

\* execute_sql_query calls: a query and the object of its named values
QueryCalls ==
    {[query |-> q, params |-> ps] :
        q \in {SqlOne, SqlTwo, SqlRepeated, SqlValueOf},
        ps \in UNION {[keys -> {[type |-> "number", repr |-> "7"],
                                [type |-> "string", repr |-> "s"]}] :
                        keys \in SUBSET {"x", "y"}}}

\* parsed values a file can hold: the well-formed record, the same with one
\* field of another kind or with another parameter_order, and values that
\* are not records
FileContents ==
    {WellFormedContent}
    \cup {[WellFormedContent EXCEPT ![f] = Field(k)] :
            f \in ConfigFields, k \in JsonKinds \ {"array"}}
    \cup {[WellFormedContent EXCEPT ![f] = ArrayOf(<<>>)] : f \in ConfigFields}
    \cup {[WellFormedContent EXCEPT !.parameter_order = ArrayOf(items)] :
            items \in {<<"string", "string">>, <<"number">>,
                       <<"string", "number">>, <<"null">>}}
    \cup {Bare(k) : k \in {"null", "array", "string", "number", "object"}}

\* files loadToolFromFile is applied to
FileInputs ==
    {DiskFile(FALSE, FALSE, FALSE, Bare("undefined")),
     DiskFile(TRUE, FALSE, FALSE, Bare("undefined")),
     DiskFile(TRUE, TRUE, FALSE, Bare("undefined"))}
    \cup {DiskFile(TRUE, TRUE, TRUE, c) : c \in FileContents}

\* files of the listings loadAllTools is applied to: a record, text that
\* is not JSON, JSON that is not a record, and an entry existsSync does not
\* find (a link whose target is gone, a file removed after the listing)
ListedFiles ==
    {DiskFile(TRUE, TRUE, TRUE, WellFormedContent),
     DiskFile(FALSE, FALSE, FALSE, Bare("undefined")),
     DiskFile(TRUE, TRUE, FALSE, Bare("undefined")),
     DiskFile(TRUE, TRUE, TRUE,
              [WellFormedContent EXCEPT !.sql_query = Field("undefined")])}

\* listings of the tools directory, and whether the directory is there and
\* readdirSync succeeds
DirectoryInputs ==
    {[exists |-> ex, readdirFails |-> rf, entries |-> es] :
        ex \in BOOLEAN, rf \in BOOLEAN,
        es \in UNION {[names -> ListedFiles] : names \in SUBSET EntryNames}}

\* rows pg_type can hold for the type identifiers of the model; 705 is the
\* pseudo-type whose name is 'unknown', 99999 has no row
PgTypeRows ==
    {[oid |-> 23, typname |-> "int4"], [oid |-> 705, typname |-> "unknown"]}

ResultOids == {23, 705, 99999}

\* query results: up to two columns
ResultInputs ==
    {[result |-> [rejects |-> FALSE, rowCount |-> 1, fields |-> fs],
      pgType |-> tbl] :
        fs \in {<<>>}
             \cup {<<[name |-> "id", dataTypeID |-> a]>> : a \in ResultOids}
             \cup {<<[name |-> "id", dataTypeID |-> a],
                     [name |-> "name", dataTypeID |-> b]>> :
                       a \in ResultOids, b \in ResultOids},
        tbl \in SUBSET PgTypeRows}

\* keys of the Registry in insertion order, for list_saved_queries: the
\* names are those of the listed record files
RegistryKeys ==
    {<<>>, <<"tool1">>, <<"tool2">>, <<"tool1", "tool2">>, <<"tool2", "tool1">>}

PureInputs ==
    {[kind |-> "sql", sql |-> t] : t \in SqlTexts}
    \cup {[kind |-> "call", call |-> c] : c \in QueryCalls}
    \cup {[kind |-> "file", file |-> f] : f \in FileInputs}
    \cup {[kind |-> "directory", dir |-> dir] : dir \in DirectoryInputs}
    \cup {[kind |-> "list", keys |-> ks, dir |-> dir] :
             ks \in RegistryKeys, dir \in DirectoryInputs}
    \cup {[kind |-> "result", result |-> r.result, pgType |-> r.pgType] :
             r \in ResultInputs}
    \cup {[kind |-> "schema", schema |-> sc] : sc \in SchemaInputs}
    \cup {[kind |-> "body", fn |-> b] :
             b \in {b \in BodyInputs : b.style = "sync" => b.outcome # "reject"}}

InitPure ==
    /\ phase = "library"
    /\ files = [n \in StoreNames |-> AbsentFile]
    /\ registeredTools = [n \in StoreNames |-> NoHandle]
    /\ serverTools = [n \in StoreNames |-> NoTool]
    /\ pre = NewProcess(files)
    /\ last = [op |-> "none", params |-> NoParams, fault |-> "none",
               response |-> NoResponse, calls |-> <<>>]
    /\ repeat = FALSE
    /\ \E i \in PureInputs : pure = [fn |-> "input", input |-> i, output |-> <<>>]
    /\ tasks = <<>>
    /\ running = NoTask

\* parseNamedParameters(sql)
ApplyParseNamedParameters ==
    /\ pure.fn = "input"
    /\ pure.input.kind = "sql"
    /\ pure' = [fn |-> "parseNamedParameters", input |-> pure.input,
                output |-> parseNamedParameters(pure.input.sql)]
    /\ UNCHANGED <<phase, files, registeredTools, serverTools, pre, last, repeat,
                   tasks, running>>

\* validateJsonSchema(schema)
ApplyValidateJsonSchema ==
    /\ pure.fn = "input"
    /\ pure.input.kind = "schema"
    /\ pure' = [fn |-> "validateJsonSchema", input |-> pure.input,
                output |-> validateJsonSchema(pure.input.schema)]
    /\ UNCHANGED <<phase, files, registeredTools, serverTools, pre, last, repeat,
                   tasks, running>>

\* withErrorHandling('operation', fn)
ApplyWithErrorHandling ==
    /\ pure.fn = "input"
    /\ pure.input.kind = "body"
    /\ pure' = [fn |-> "withErrorHandling", input |-> pure.input,
                output |-> withErrorHandlingCall(<<"operation">>, pure.input.fn)]
    /\ UNCHANGED <<phase, files, registeredTools, serverTools, pre, last, repeat,
                   tasks, running>>


\* ------------------------------------------------------------------------
\* dynamicToolHandler.ts createDynamicToolHandler: the handler of a saved
\* tool.  Argument objects are functions from ArgKeys to values, Undefined
\* standing for a key the object does not have; texts are sequences of
\* pieces.
\* ------------------------------------------------------------------------

Undefined == [type |-> "undefined", repr |-> "undefined"]
NumberSeven == [type |-> "number", repr |-> "7"]
StringS == [type |-> "string", repr |-> "s"]

ArgKeys == {"x", "y"}

\* Object.entries order of the properties of the model's schemas
KeyOrder == <<"x", "y">>

ArgValues == {Undefined, NumberSeven, StringS}

\* { type: 'object', properties: { x: { type: 'integer' }, y: { type:
\* 'string' } }, required: ['x', 'y'] }
SchemaXY ==
    [json |-> "object", type |-> "object",
     properties |-> {[key |-> "x", type |-> "integer"],
                     [key |-> "y", type |-> "string"]},
     required |-> {"x", "y"}]

\* the type a Zod field of the JSON Schema type reports and accepts, "any"
\* for z.any()
ZodTypeOf(jsonType) ==
    IF jsonType \in {"integer", "number"} THEN "number"
    ELSE IF jsonType \in {"string", "boolean", "array"} THEN jsonType
    ELSE "any"

\* the issues Zod reports for one property, path first
ZodFieldIssues(prop, isRequired, value) ==
    IF ZodTypeOf(prop.type) = "any" THEN <<>>
    ELSE IF value = Undefined
    THEN IF isRequired THEN <<[path |-> prop.key, message |-> <<"Required">>]>>
         ELSE <<>>
    ELSE IF value.type = ZodTypeOf(prop.type) THEN <<>>
    ELSE <<[path |-> prop.key,
            message |-> <<"Expected ", ZodTypeOf(prop.type), ", received ",
                          value.type>>]>>

\* the issues of the properties KeyOrder[i..], collected over all of them
RECURSIVE ZodObjectIssues(_, _, _)
ZodObjectIssues(schema, params, i) ==
    IF i > Len(KeyOrder) THEN <<>>
    ELSE LET declared == {p \in schema.properties : p.key = KeyOrder[i]}
             rest == ZodObjectIssues(schema, params, i + 1)
         IN IF declared = {} THEN rest
            ELSE LET prop == CHOOSE p \in declared : TRUE
                 IN ZodFieldIssues(prop, prop.key \in schema.required,
                                   params[prop.key]) \o rest

\* paramSchema.parse(params) for paramSchema = convertJsonSchemaToZod(schema),
\* by the conversion the repository holds (createZodSchemaFromJsonSchemaManual):
\* z.object of the declared properties when the root type is 'object', and
\* z.object({}) for any other schema; either way the keys that are not
\* declared are stripped, so a schema of another root type accepts every
\* argument object and hands none of its values on
paramSchemaParse(schema, params) ==
    LET declaredKeys == {p.key : p \in schema.properties}
    IN IF schema.type = "object"
       THEN [issues |-> ZodObjectIssues(schema, params, 1),
             data |-> [k \in ArgKeys |->
                         IF k \in declaredKeys THEN params[k] ELSE Undefined]]
       ELSE [issues |-> <<>>, data |-> [k \in ArgKeys |-> Undefined]]

\* error.errors.map(e => `${e.path.join('.')}: ${e.message}`).join(', ')
RECURSIVE JoinIssues(_)
JoinIssues(issues) ==
    IF issues = <<>> THEN <<>>
    ELSE <<Head(issues).path, ": ">> \o Head(issues).message
         \o (IF Len(issues) > 1 THEN <<", ">> ELSE <<>>)
         \o JoinIssues(Tail(issues))

\* the TypeError thrown for a ZodError
ValidationError(issues) ==
    [instanceOfError |-> TRUE,
     message |-> <<"Parameter validation error: ">> \o JoinIssues(issues)]

\* the inherited properties the model's parameter names can hit
ObjectPrototypeNames == {ValueOfName}

\* Object.prototype.valueOf, as a query value
InheritedFunction == [type |-> "function", repr |-> "valueOf"]

\* the object has the key itself; the keys of the model's argument objects
\* are one character long and Undefined stands for a key that is not there
HasOwn(params, name) ==
    /\ Len(name) = 1
    /\ name[1] \in DOMAIN params
    /\ params[name[1]] # Undefined

\* params[name] for a parameter name given as text: the object's own
\* property, else the one it inherits from Object.prototype, else undefined
Property(params, name) ==
    IF HasOwn(params, name) THEN params[name[1]]
    ELSE IF name \in ObjectPrototypeNames THEN InheritedFunction
    ELSE Undefined

\* parameterMapper.ts mapToPositional
mapToPositional(params, parameterOrder) ==
    [i \in 1..Len(parameterOrder) |-> Property(params, parameterOrder[i])]

\* mutant of handlerStart: the query is sent before the input is validated
handlerStart_QueryFirst(toolConfig, params) ==
    LET parsed == paramSchemaParse(toolConfig.parameter_schema, params)
    IN [threw |-> parsed.issues # <<>>,
        error |-> ValidationError(parsed.issues),
        stage |-> "validating parameters",
        calls |-> <<"pool.query">>,
        query |-> [sql |-> toolConfig.sql_prepared,
                   values |-> mapToPositional(params, toolConfig.parameter_order)]]

\* the handler up to its first await (lines 39-52): validate, map the
\* arguments, hand the query to the pool
handlerStart(toolConfig, params) ==
    LET parsed == paramSchemaParse(toolConfig.parameter_schema, params)
    IN IF parsed.issues # <<>>
       THEN [threw |-> TRUE, error |-> ValidationError(parsed.issues),
             stage |-> "validating parameters", calls |-> <<>>,
             query |-> [sql |-> <<>>, values |-> <<>>]]
       ELSE [threw |-> FALSE, error |-> ValidationError(<<>>),
             stage |-> "executing SQL query", calls |-> <<"pool.query">>,
             query |-> [sql |-> toolConfig.sql_prepared,
                        values |-> mapToPositional(parsed.data,
                                                   toolConfig.parameter_order)]]

\* `executing tool '${toolConfig.name}'`
InvokeOperation(toolConfig) == <<"executing tool '", toolConfig.name, "'">>

\* what pool.query can settle with: a rejection, or a result with its fields
QueryResults ==
    {[rejects |-> TRUE, rowCount |-> 0, fields |-> <<>>],
     [rejects |-> FALSE, rowCount |-> 0, fields |-> <<>>],
     [rejects |-> FALSE, rowCount |-> 1,
      fields |-> <<[name |-> "id", dataTypeID |-> 23]>>]}

\* what getTypeNames can settle with: a rejection, or the rows of pg_type
\* found for the oids
TypeNameResults ==
    {[rejects |-> TRUE, rows |-> {}],
     [rejects |-> FALSE, rows |-> {}],
     [rejects |-> FALSE, rows |-> {[oid |-> 23, typname |-> "int4"]}]}

\* typeNames.get(f.dataTypeID) ?? 'unknown'
DataTypeOf(rows, oid) ==
    IF \E r \in rows : r.oid = oid
    THEN (CHOOSE r \in rows : r.oid = oid).typname
    ELSE "unknown"

\* the value the handler returns (lines 58-66)
handlerResult(result, typeNames) ==
    [rowCount |-> result.rowCount,
     fields |-> [i \in 1..Len(result.fields) |->
                   [name |-> result.fields[i].name,
                    dataType |-> DataTypeOf(typeNames.rows,
                                            result.fields[i].dataTypeID),
                    dataTypeID |-> result.fields[i].dataTypeID]]]

\* result.fields.map(f => f.dataTypeID)
resultOids(result) ==
    [i \in 1..Len(result.fields) |-> result.fields[i].dataTypeID]

\* schemaService.ts getTypeNames(oids) against the rows of pg_type: no query
\* for an empty list, else one Map entry per row whose oid is in the list
getTypeNames(oids, pgType) ==
    IF Len(oids) = 0 THEN [rejects |-> FALSE, rows |-> {}]
    ELSE [rejects |-> FALSE,
          rows |-> {r \in pgType : \E i \in 1..Len(oids) : oids[i] = r.oid}]

\* mutant of executeSqlResult: a column whose type has no name is left out
executeSqlResult_DropUnresolved(result, typeNames) ==
    [rowCount |-> result.rowCount,
     fields |-> SelectSeq(
         [i \in 1..Len(result.fields) |->
            [name |-> result.fields[i].name,
             dataType |-> DataTypeOf(typeNames.rows, result.fields[i].dataTypeID),
             dataTypeID |-> result.fields[i].dataTypeID]],
         LAMBDA f : \E r \in typeNames.rows : r.oid = f.dataTypeID)]

\* executeSqlQuery.ts handler, lines 38-46: the value it returns
executeSqlResult(result, typeNames) ==
    [rowCount |-> result.rowCount,
     fields |-> [i \in 1..Len(result.fields) |->
                   [name |-> result.fields[i].name,
                    dataType |-> DataTypeOf(typeNames.rows,
                                            result.fields[i].dataTypeID),
                    dataTypeID |-> result.fields[i].dataTypeID]]]

\* the body of the handler as withErrorHandling sees it: an async function
\* that logged `logs` and then threw `error` or returned `value`
HandlerBody(logs, outcome, value, error) ==
    [style |-> "async", logs |-> logs, outcome |-> outcome, value |-> value,
     error |-> error]

QueryFailed == [instanceOfError |-> TRUE, message |-> "query failed"]
TypeLookupFailed == [instanceOfError |-> TRUE, message |-> "type lookup failed"]

\* ------------------------------------------------------------------------
\* The event loop.  Every call is a task; the task that is executing holds
\* the thread until its handler awaits or returns.  A lifecycle handler is
\* followed statement by statement, a dynamic tool handler from await to
\* await.
\* ------------------------------------------------------------------------

NoQuery == [sql |-> <<>>, values |-> <<>>]

NewTask(kind, params, args, fault, st) ==
    [kind |-> kind, params |-> params, args |-> args, fault |-> fault,
     pc |-> "start", suspended |-> FALSE, start |-> st, end |-> st,
     handler |-> NoConfig, calls |-> <<>>, query |-> NoQuery,
     result |-> [rejects |-> FALSE, rowCount |-> 0, fields |-> <<>>],
     response |-> NoResponse, reply |-> createSuccessResponse("")]

LifecycleKinds == {"save", "delete"}

\* mutant of YieldsAfter: the file is written with an awaited call
YieldsAfter_AwaitedWrite(kind, pc) ==
    \/ kind = "invoke" /\ pc \in {"query", "types"}
    \/ kind = "save" /\ pc = "register"

\* the handler gives up the thread on reaching pc: only the awaits of the
\* dynamic tool handler (lines 52 and 56) do; the lifecycle handlers have
\* no await
YieldsAfter(kind, pc) ==
    kind = "invoke" /\ pc \in {"query", "types"}

\* task t can take its next step: it holds the thread, or it gave the
\* thread up and the thread is free
CanStep(t) ==
    running = IF tasks[t].suspended THEN NoTask ELSE t

\* task t of ts moves to pc
Advance(ts, t, pc, calls) ==
    LET yields == YieldsAfter(ts[t].kind, pc)
    IN /\ tasks' = [ts EXCEPT ![t].pc = pc, ![t].suspended = yields,
                              ![t].calls = calls]
       /\ running' = IF yields THEN NoTask ELSE t

\* the lifecycle handler of task t of ts ends with `body`
FinishLifecycle(ts, t, operation, body) ==
    /\ tasks' = [ts EXCEPT ![t].pc = "done", ![t].suspended = FALSE,
                           ![t].end = body.st, ![t].calls = body.calls,
                           ![t].response = withErrorHandling(operation, body)]
    /\ running' = NoTask
    /\ files' = body.st.files
    /\ registeredTools' = body.st.registeredTools
    /\ serverTools' = body.st.serverTools

\* the dynamic tool handler of task t of ts ends
FinishInvoke(ts, t, calls, fn) ==
    /\ tasks' = [ts EXCEPT ![t].pc = "done", ![t].suspended = FALSE,
                           ![t].end = State, ![t].calls = calls,
                           ![t].reply = withErrorHandlingCall(
                                InvokeOperation(ts[t].handler), fn).response]
    /\ running' = NoTask
    /\ UNCHANGED <<files, registeredTools, serverTools>>

\* the calls of the event-loop model: save_query and delete_saved_query for
\* the user tools, with two valid definitions, and calls of the saved tools
LoopDefinitions ==
    {[description |-> "Get user", sql_query |-> SqlOne, parameter_schema |-> SchemaX],
     [description |-> "Updated description", sql_query |-> SqlTwo,
      parameter_schema |-> SchemaXY]}

LoopSaveParams ==
    {[tool_name |-> n, description |-> d.description, sql_query |-> d.sql_query,
      parameter_schema |-> d.parameter_schema, overwrite |-> o] :
        n \in UserNames, d \in LoopDefinitions, o \in {"true", "undefined"}}

LoopDeleteParams == {[NoParams EXCEPT !.tool_name = n] : n \in UserNames}

Args == [ArgKeys -> ArgValues]

NoArgs == [k \in ArgKeys |-> Undefined]

\* the data directory when the process starts: every user tool saved
\* before, or none
LoopDirectories ==
    {[n \in StoreNames |-> IF n \in saved THEN InitialRecord(n) ELSE AbsentFile] :
        saved \in {{}, UserNames}}

InitLoop ==
    \E fs \in LoopDirectories :
       \E c \in {createServer(fs, "none")} :
           /\ phase = "running"
           /\ files = c.st.files
           /\ registeredTools = c.st.registeredTools
           /\ serverTools = c.st.serverTools
           /\ pre = NewProcess(fs)
           /\ last = StartupCall(c)
           /\ repeat = FALSE
           /\ pure = NoPure
           /\ tasks = <<>>
           /\ running = NoTask

\* save_query is called: the handler runs up to `persisting tool to file`
SaveBegin ==
    /\ running = NoTask
    /\ Len(tasks) < MaxTasks
    /\ \E params \in LoopSaveParams, fault \in Faults :
        LET ts == Append(tasks, NewTask("save", params, NoArgs, fault, State))
            t == Len(ts)
            toolExists == RegistryHas(registeredTools, params.tool_name)
        IN IF isConflict(toolExists, Overwrite(params))
           THEN FinishLifecycle(ts, t, "saving tool",
                                Threw(State, "already exists", "", <<>>))
           ELSE IF ~validateJsonSchema(params.parameter_schema)
           THEN FinishLifecycle(ts, t, "saving tool",
                                Threw(State, "Invalid parameter_schema",
                                      "validating parameter schema", <<>>))
           ELSE /\ Advance(ts, t, "persist", <<>>)
                /\ UNCHANGED <<files, registeredTools, serverTools>>
    /\ UNCHANGED <<phase, pre, last, repeat, pure>>

\* saveToolToFile(params.tool_name, toolConfig)
SavePersist ==
    /\ \E t \in DOMAIN tasks :
        /\ tasks[t].kind = "save"
        /\ tasks[t].pc = "persist"
        /\ CanStep(t)
        /\ LET params == tasks[t].params
               saved == saveToolToFile(files, params.tool_name,
                                       BuildToolConfig(params),
                                       tasks[t].fault)
           IN IF saved.threw
              THEN FinishLifecycle(tasks, t, "saving tool",
                                   Threw([State EXCEPT !.files = saved.files],
                                         "Failed to save tool",
                                         "persisting tool to file",
                                         <<"saveToolToFile">>))
              ELSE /\ Advance(tasks, t, "register", <<"saveToolToFile">>)
                   /\ files' = saved.files
                   /\ UNCHANGED <<registeredTools, serverTools>>
    /\ UNCHANGED <<phase, pre, last, repeat, pure>>

\* registerToolWithServer or updateExistingTool, by the isCreate and
\* isUpdate the handler computed on entry
SaveRegister ==
    /\ \E t \in DOMAIN tasks :
        /\ tasks[t].kind = "save"
        /\ tasks[t].pc = "register"
        /\ CanStep(t)
        /\ LET params == tasks[t].params
               toolConfig == BuildToolConfig(params)
               toolExists == RegistryHas(tasks[t].start.registeredTools,
                                         params.tool_name)
               isUpdate == toolExists /\ Overwrite(params)
               isCreate == ~toolExists
               r == IF isCreate
                    THEN registerToolWithServer(State, params.tool_name, toolConfig,
                                                tasks[t].fault = "server")
                    ELSE updateExistingTool(State, params.tool_name, toolConfig,
                                            tasks[t].fault = "server")
               stage == IF isCreate THEN "registering new tool in MCP server"
                        ELSE "updating existing tool in MCP server"
               calls == tasks[t].calls \o r.calls
           IN IF ~isCreate /\ ~isUpdate
              THEN FinishLifecycle(tasks, t, "saving tool",
                                   Threw(State, "Unexpected state in save_query handler",
                                         "persisting tool to file", tasks[t].calls))
              ELSE IF r.threw
              THEN FinishLifecycle(tasks, t, "saving tool",
                                   Threw(r.st, r.message, stage, calls))
              ELSE FinishLifecycle(tasks, t, "saving tool",
                                   Returned(r.st,
                                            IF isCreate THEN "Successfully created"
                                            ELSE "Successfully updated",
                                            stage, calls))
    /\ UNCHANGED <<phase, pre, last, repeat, pure>>

\* delete_saved_query is called: the handler runs up to
\* `removing tool from MCP server`
DeleteBegin ==
    /\ running = NoTask
    /\ Len(tasks) < MaxTasks
    /\ \E params \in LoopDeleteParams, fault \in Faults :
        LET ts == Append(tasks, NewTask("delete", params, NoArgs, fault, State))
            t == Len(ts)
        IN IF isProtected(params.tool_name)
           THEN FinishLifecycle(ts, t, "deleting tool",
                                Threw(State, "Cannot delete core tool", "", <<>>))
           ELSE IF RegistryGet(registeredTools, params.tool_name) = NoHandle
           THEN FinishLifecycle(ts, t, "deleting tool",
                                Threw(State, "not found", "", <<>>))
           ELSE /\ Advance(ts, t, "remove", <<>>)
                /\ UNCHANGED <<files, registeredTools, serverTools>>
    /\ UNCHANGED <<phase, pre, last, repeat, pure>>

\* registeredTool.remove()
DeleteRemove ==
    /\ \E t \in DOMAIN tasks :
        /\ tasks[t].kind = "delete"
        /\ tasks[t].pc = "remove"
        /\ CanStep(t)
        /\ LET registeredTool == RegistryGet(tasks[t].start.registeredTools,
                                             tasks[t].params.tool_name)
               rm == handleRemove(serverTools, registeredTool,
                                  tasks[t].fault = "server")
           IN IF rm.threw
              THEN FinishLifecycle(tasks, t, "deleting tool",
                                   Threw(State, "remove failed",
                                         "removing tool from MCP server",
                                         <<"remove">>))
              ELSE /\ Advance(tasks, t, "map delete", <<"remove">>)
                   /\ serverTools' = rm.serverTools
                   /\ UNCHANGED <<files, registeredTools>>
    /\ UNCHANGED <<phase, pre, last, repeat, pure>>

\* registeredTools.delete(params.tool_name)
DeleteMapDelete ==
    /\ \E t \in DOMAIN tasks :
        /\ tasks[t].kind = "delete"
        /\ tasks[t].pc = "map delete"
        /\ CanStep(t)
        /\ Advance(tasks, t, "file delete",
                   tasks[t].calls \o <<"registeredTools.delete">>)
        /\ registeredTools' =
               [registeredTools EXCEPT ![tasks[t].params.tool_name] = NoHandle]
        /\ UNCHANGED <<files, serverTools>>
    /\ UNCHANGED <<phase, pre, last, repeat, pure>>

\* deleteToolFile(params.tool_name)
DeleteFile ==
    /\ \E t \in DOMAIN tasks :
        /\ tasks[t].kind = "delete"
        /\ tasks[t].pc = "file delete"
        /\ CanStep(t)
        /\ LET del == deleteToolFile(files, tasks[t].params.tool_name,
                                     tasks[t].fault = "fs")
               calls == tasks[t].calls \o <<"deleteToolFile">>
           IN IF del.threw
              THEN FinishLifecycle(tasks, t, "deleting tool",
                                   Threw(State, "Failed to delete tool file",
                                         "deleting tool file from storage", calls))
              ELSE FinishLifecycle(tasks, t, "deleting tool",
                                   Returned([State EXCEPT !.files = del.files],
                                            "Successfully deleted",
                                            "deleting tool file from storage", calls))
    /\ UNCHANGED <<phase, pre, last, repeat, pure>>

\* mutant of Dispatch: the call is served from the record on disk
Dispatch_FromStore(st, toolName) == st.files[toolName].config

\* the callback the server calls for the name: the closure built by
\* createDynamicToolHandler and handed over by registerTool or update
Dispatch(st, toolName) == st.serverTools[toolName].callback

\* a saved tool is called: the server dispatches to the callback it holds
\* for the name, and the handler runs up to `await pool.query(...)`
InvokeBegin ==
    /\ running = NoTask
    /\ Len(tasks) < MaxTasks
    /\ \E n \in UserNames, args \in Args :
        /\ serverTools[n].kind = "dynamic"
        /\ LET dynamicHandler == Dispatch(State, n)
               new == NewTask("invoke", [NoParams EXCEPT !.tool_name = n], args,
                              "none", State)
               ts == Append(tasks, [new EXCEPT !.handler = dynamicHandler])
               t == Len(ts)
               begun == handlerStart(dynamicHandler, args)
           IN IF begun.threw
              THEN FinishInvoke(ts, t, begun.calls,
                                HandlerBody(<<begun.stage>>, "throw", "", begun.error))
              ELSE /\ tasks' = [ts EXCEPT ![t].pc = "query",
                                          ![t].suspended = YieldsAfter("invoke", "query"),
                                          ![t].calls = begun.calls,
                                          ![t].query = begun.query]
                   /\ running' = IF YieldsAfter("invoke", "query") THEN NoTask ELSE t
                   /\ UNCHANGED <<files, registeredTools, serverTools>>
    /\ UNCHANGED <<phase, pre, last, repeat, pure>>

\* pool.query settles: the handler resumes and runs up to
\* `await getTypeNames(oids)`
InvokeQuerySettles ==
    /\ \E t \in DOMAIN tasks :
        /\ tasks[t].kind = "invoke"
        /\ tasks[t].pc = "query"
        /\ CanStep(t)
        /\ \E result \in QueryResults :
            IF result.rejects
            THEN FinishInvoke(tasks, t, tasks[t].calls,
                              HandlerBody(<<"validating parameters", "executing SQL query">>,
                                          "throw", "", QueryFailed))
            ELSE /\ tasks' = [tasks EXCEPT
                                ![t].pc = "types",
                                ![t].suspended = YieldsAfter("invoke", "types"),
                                ![t].calls = @ \o <<"getTypeNames">>,
                                ![t].result = result]
                 /\ running' = IF YieldsAfter("invoke", "types") THEN NoTask ELSE t
                 /\ UNCHANGED <<files, registeredTools, serverTools>>
    /\ UNCHANGED <<phase, pre, last, repeat, pure>>

\* getTypeNames settles: the handler resumes and returns
InvokeTypeNamesSettle ==
    /\ \E t \in DOMAIN tasks :
        /\ tasks[t].kind = "invoke"
        /\ tasks[t].pc = "types"
        /\ CanStep(t)
        /\ \E typeNames \in TypeNameResults :
            FinishInvoke(tasks, t, tasks[t].calls,
                IF typeNames.rejects
                THEN HandlerBody(<<"validating parameters", "executing SQL query",
                                   "resolving type names">>,
                                 "throw", "", TypeLookupFailed)
                ELSE HandlerBody(<<"validating parameters", "executing SQL query",
                                   "resolving type names">>,
                                 "return",
                                 handlerResult(tasks[t].result, typeNames),
                                 TypeLookupFailed))
    /\ UNCHANGED <<phase, pre, last, repeat, pure>>

NextLoop ==
    \/ SaveBegin
    \/ SavePersist
    \/ SaveRegister
    \/ DeleteBegin
    \/ DeleteRemove
    \/ DeleteMapDelete
    \/ DeleteFile
    \/ InvokeBegin
    \/ InvokeQuerySettles
    \/ InvokeTypeNamesSettle

SpecLoop == InitLoop /\ [][NextLoop]_vars

\* ------------------------------------------------------------------------
\* Library functions applied on their own, continued
\* ------------------------------------------------------------------------

\* execute_sql_query, lines 28-29: parseNamedParameters(query), then
\* mapToPositional(params ?? {}, parameterOrder)
ApplyMapToPositional ==
    /\ pure.fn = "input"
    /\ pure.input.kind = "call"
    /\ LET parsed == parseNamedParameters(pure.input.call.query)
       IN pure' = [fn |-> "mapToPositional", input |-> pure.input,
                   output |-> [sql |-> parsed.sql,
                               parameterOrder |-> parsed.parameterOrder,
                               positionalParams |->
                                   mapToPositional(pure.input.call.params,
                                                   parsed.parameterOrder)]]
    /\ UNCHANGED <<phase, files, registeredTools, serverTools, pre, last, repeat,
                   tasks, running>>

\* loadToolFromFile(toolName), on the file of the name
ApplyLoadToolFromFile ==
    /\ pure.fn = "input"
    /\ pure.input.kind = "file"
    /\ pure' = [fn |-> "loadToolFromFile", input |-> pure.input,
                output |-> loadToolFromDisk(pure.input.file)]
    /\ UNCHANGED <<phase, files, registeredTools, serverTools, pre, last, repeat,
                   tasks, running>>

\* loadAllTools(), on a listing of the tools directory
ApplyLoadAllTools ==
    /\ pure.fn = "input"
    /\ pure.input.kind = "directory"
    /\ pure' = [fn |-> "loadAllTools", input |-> pure.input,
                output |-> loadAllToolsFromDisk(pure.input.dir)]
    /\ UNCHANGED <<phase, files, registeredTools, serverTools, pre, last, repeat,
                   tasks, running>>

\* the handlers of execute_sql_query (lines 34-36) and of a dynamic tool
\* (lines 54-56) once pool.query has resolved: the identifiers are taken
\* from the columns and handed to getTypeNames, and the handler waits for
\* the lookup (`await getTypeNames(oids)`)
ApplyInvokeGetTypeNames ==
    /\ pure.fn = "input"
    /\ pure.input.kind = "result"
    /\ pure' = [fn |-> "getTypeNames", input |-> pure.input,
                output |-> [oids |-> resultOids(pure.input.result)]]
    /\ UNCHANGED <<phase, files, registeredTools, serverTools, pre, last, repeat,
                   tasks, running>>

\* the lookup settles in a later turn of the event loop: the handlers of
\* execute_sql_query (lines 38-46) and of a dynamic tool (lines 58-66)
\* build the value they return from the mapping
ApplyResolveTypeNames ==
    /\ pure.fn = "getTypeNames"
    /\ LET typeNames == getTypeNames(pure.output.oids, pure.input.pgType)
       IN pure' = [fn |-> "resolveTypeNames", input |-> pure.input,
                   output |-> [oids |-> pure.output.oids,
                               typeNames |-> typeNames,
                               executeSql |-> executeSqlResult(pure.input.result,
                                                               typeNames),
                               dynamicTool |-> handlerResult(pure.input.result,
                                                             typeNames)]]
    /\ UNCHANGED <<phase, files, registeredTools, serverTools, pre, last, repeat,
                   tasks, running>>

\* the description a record holds, as text
DescriptionOf(toolName, toolConfig) == "description of " \o toolName

\* listSavedQueries.ts, lines 22-26: the line of one Registry name
toolLine(toolName, savedTools) ==
    LET description == IF toolName \in DOMAIN savedTools
                       THEN DescriptionOf(toolName, savedTools[toolName])
                       ELSE "No description"
    IN <<"- **", toolName, "**: ", description>>

\* lines 21-28: the lines of the Registry keys joined by a line feed
RECURSIVE toolList(_, _)
toolList(keys, savedTools) ==
    IF keys = <<>> THEN <<>>
    ELSE IF Len(keys) = 1 THEN toolLine(keys[1], savedTools)
    ELSE toolLine(keys[1], savedTools) \o <<"\n">>
            \o toolList(Tail(keys), savedTools)

\* listSavedQueries.ts, lines 14-31: the function handed to
\* withErrorHandling, on the Registry keys and the tools directory
listSavedQueriesFn(keys, dir) ==
    LET savedTools == loadAllToolsFromDisk(dir)
    IN IF Len(keys) = 0
       THEN [style |-> "sync", logs |-> <<>>, outcome |-> "return",
             value |-> <<"No saved queries found.">>,
             error |-> [instanceOfError |-> TRUE, message |-> ""],
             calls |-> <<>>]
       ELSE IF savedTools.threw
       THEN [style |-> "sync", logs |-> <<>>, outcome |-> "throw",
             value |-> <<>>,
             error |-> [instanceOfError |-> TRUE,
                        message |-> "Failed to load tools from directory"],
             calls |-> <<"loadAllTools">>]
       ELSE [style |-> "sync", logs |-> <<>>, outcome |-> "return",
             value |-> <<"Found ">> \o DecimalChars(Len(keys))
                         \o <<" saved quer",
                              IF Len(keys) = 1 THEN "y" ELSE "ies", ":\n\n">>
                         \o toolList(keys, savedTools.tools),
             error |-> [instanceOfError |-> TRUE, message |-> ""],
             calls |-> <<"loadAllTools">>]

\* list_saved_queries, on the Registry keys and the tools directory
ApplyListSavedQueries ==
    /\ pure.fn = "input"
    /\ pure.input.kind = "list"
    /\ LET fn == listSavedQueriesFn(pure.input.keys, pure.input.dir)
       IN pure' = [fn |-> "listSavedQueries", input |-> pure.input,
                   output |-> [calls |-> fn.calls,
                               response |-> withErrorHandlingCall(
                                   <<"listing saved queries">>, fn).response]]
    /\ UNCHANGED <<phase, files, registeredTools, serverTools, pre, last, repeat,
                   tasks, running>>

NextPure ==
    \/ ApplyParseNamedParameters
    \/ ApplyValidateJsonSchema
    \/ ApplyWithErrorHandling
    \/ ApplyMapToPositional
    \/ ApplyLoadToolFromFile
    \/ ApplyLoadAllTools
    \/ ApplyInvokeGetTypeNames
    \/ ApplyResolveTypeNames
    \/ ApplyListSavedQueries

SpecPure == InitPure /\ [][NextPure]_vars

TypeOK ==
    /\ phase \in {"running", "crashed"}
    /\ \A n \in StoreNames :
        /\ files[n].kind \in {"absent", "record", "invalid", "unparseable"}
        /\ registeredTools[n] \in 0..(2 * Cardinality(StoreNames) + 1)
        /\ serverTools[n].kind \in {"none", "core", "dynamic"}

\* ------------------------------------------------------------------------
\* Properties.  `last` is the call whose handler led to the current state
\* and `pre` the state that handler was entered in.
\* ------------------------------------------------------------------------

\* the name the last call was about
LastName == last.params.tool_name

\* the last call left the Persistence Store, the Registry and the server alone
Untouched == State = pre

\* the Registry held the name of the last call when the call was entered
WasRegistered == RegistryHas(pre.registeredTools, LastName)

\* names with a Registry entry
RegisteredNames(reg) == {n \in DOMAIN reg : reg[n] # NoHandle}

\* the last call made the collaborator call c
Called(c) == \E i \in 1..Len(last.calls) : last.calls[i] = c

\* C1: a save_query for a name that is in the Registry, with overwrite false
\* or omitted, returns the conflict error, makes no collaborator call (no
\* file write, no registerTool, no update) and leaves the Persistence Store
\* and the Registry exactly as they were.
C1_ConflictTouchesNothing ==
    (/\ last.op = "save"
     /\ WasRegistered
     /\ last.params.overwrite \in {"false", "undefined"})
    => (/\ last.response.isError
        /\ last.response.message = "already exists"
        /\ last.calls = <<>>
        /\ Untouched)

C1_Witness ==
    /\ last.op = "save"
    /\ WasRegistered
    /\ last.params.overwrite = "undefined"
    /\ last.response.isError
    /\ last.response.message = "already exists"
    /\ files[LastName].kind = "record"
    /\ files[LastName].config # BuildToolConfig(last.params)

\* C2: delete_saved_query on any of the ten protected names returns an
\* error whether or not the Registry holds an entry of that name, never
\* calls remove(), never removes a Registry entry and never deletes a file.
C2_ProtectedDeleteRejected ==
    (/\ last.op = "delete"
     /\ LastName \in PROTECTED_TOOLS)
    => (/\ last.response.isError
        /\ last.response.message = "Cannot delete core tool"
        /\ last.calls = <<>>
        /\ Untouched)

\* a protected name with a record in the store was refused, the record stays
C2_Witness ==
    /\ last.op = "delete"
    /\ LastName \in PROTECTED_TOOLS
    /\ Cardinality(PROTECTED_TOOLS) = 10
    /\ LastName \in DOMAIN files
    /\ pre.files[LastName].kind = "record"
    /\ last.response.isError
    /\ ~RegistryHas(registeredTools, LastName)
    /\ files[LastName].kind = "record"

\* C3: in a create (save_query for a name not in the Registry) the
\* definition is persisted strictly before the tool is registered: when
\* persistence fails, before or after the file was opened, the call returns
\* an error, the Registry and the server are unchanged and
\* registerTool is never called; when registration fails after a successful
\* persist the record of the new definition exists and the name is absent
\* from the Registry.
C3_PersistBeforeRegister ==
    (/\ last.op = "save"
     /\ ~WasRegistered)
    => (/\ Called("registerTool") => last.calls[1] = "saveToolToFile"
        /\ last.fault \in {"fs", "write"}
              => /\ last.response.isError
                 /\ last.response.stage = "persisting tool to file"
                 /\ last.calls = <<"saveToolToFile">>
                 /\ registeredTools = pre.registeredTools
                 /\ serverTools = pre.serverTools
        /\ (last.response.isError
            /\ last.response.stage = "registering new tool in MCP server")
              => /\ files[LastName] = RecordFile(BuildToolConfig(last.params))
                 /\ ~RegistryHas(registeredTools, LastName)
                 /\ serverTools = pre.serverTools)

C3_Witness ==
    /\ last.op = "save"
    /\ ~WasRegistered
    /\ last.fault = "server"
    /\ last.response.isError
    /\ last.response.stage = "registering new tool in MCP server"
    /\ last.calls = <<"saveToolToFile", "registerTool">>
    /\ pre.files[LastName].kind = "absent"
    /\ files[LastName] = RecordFile(BuildToolConfig(last.params))
    /\ ~RegistryHas(registeredTools, LastName)

\* C4: in delete_saved_query for a registered, non-protected name, when the
\* entry's remove() throws the call returns an error and the Registry map
\* entry and the persisted file of that name are exactly as they were.
C4_RemoveFailureTouchesNothing ==
    (/\ last.op = "delete"
     /\ last.fault = "server")
    => (/\ last.response.isError
        /\ last.calls = <<"remove">>
        /\ registeredTools[LastName] = pre.registeredTools[LastName]
        /\ RegistryHas(registeredTools, LastName)
        /\ files[LastName] = pre.files[LastName]
        /\ Untouched)

C4_Witness ==
    /\ last.op = "delete"
    /\ last.fault = "server"
    /\ LastName \notin PROTECTED_TOOLS
    /\ WasRegistered
    /\ last.response.isError
    /\ last.response.stage = "removing tool from MCP server"
    /\ RegistryHas(registeredTools, LastName)
    /\ files[LastName].kind = "record"

\* C5: in delete_saved_query, when deleting the file throws after remove()
\* succeeded, the name is no longer in the Registry, the persisted record
\* remains, and the call returns an error response, not a success message.
C5_UnlinkFailureReported ==
    (/\ last.op = "delete"
     /\ last.fault = "fs")
    => (/\ last.response.isError
        /\ last.response.message = "Failed to delete tool file"
        /\ last.response.stage = "deleting tool file from storage"
        /\ last.calls = <<"remove", "registeredTools.delete", "deleteToolFile">>
        /\ WasRegistered
        /\ ~RegistryHas(registeredTools, LastName)
        /\ serverTools[LastName].kind = "none"
        /\ files = pre.files)

C5_Witness ==
    /\ last.op = "delete"
    /\ last.fault = "fs"
    /\ last.response.isError
    /\ WasRegistered
    /\ ~RegistryHas(registeredTools, LastName)
    /\ files[LastName].kind = "record"

\* C6: delete_saved_query on a non-protected name that is not in the
\* Registry returns the not-found error without a call to the Persistence
\* Store and without a state change, also when a record of that name is on
\* disk; a delete that removed the Registry entry leaves the name out of
\* the Registry, so a second delete of the name reports not-found.
C6_UnregisteredDeleteNotFound ==
    /\ (/\ last.op = "delete"
        /\ LastName \notin PROTECTED_TOOLS
        /\ ~WasRegistered)
       => (/\ last.response.isError
           /\ last.response.message = "not found"
           /\ last.calls = <<>>
           /\ Untouched)
    /\ (/\ last.op = "delete"
        /\ Called("registeredTools.delete"))
       => (/\ ~RegistryHas(registeredTools, LastName)
           /\ \A fault \in Faults :
                LET second == deleteSavedQueryBody(State, last.params, fault)
                IN /\ second.threw
                   /\ second.message = "not found"
                   /\ second.st = State)

C6_Witness ==
    /\ last.op = "delete"
    /\ LastName \notin PROTECTED_TOOLS
    /\ ~WasRegistered
    /\ last.response.isError
    /\ last.response.message = "not found"
    /\ files[LastName].kind = "record"

\* C7 as stated: a save_query with overwrite=true for a name that is not in
\* the Registry is rejected with the not-found error (for a request with a
\* valid schema and with no collaborator failing, so that no other error
\* comes first).
C7_AbsentOverwriteRejected ==
    (/\ last.op = "save"
     /\ last.params.overwrite = "true"
     /\ ~WasRegistered
     /\ last.fault = "none"
     /\ validateJsonSchema(last.params.parameter_schema))
    => (/\ last.response.isError
        /\ last.response.message = "not found for update")

\* C7 (amended): a save_query with overwrite=true for a name that is not in
\* the Registry is never rejected as not-found and never takes the update
\* path: it is handled exactly as the same request without the flag, as a
\* create (persist, then registerTool), and a record of that name in the
\* Persistence Store has no part in the decision.
C7_AbsentOverwriteCreates ==
    (/\ last.op = "save"
     /\ last.params.overwrite = "true"
     /\ ~WasRegistered)
    => (/\ last.response.message # "not found for update"
        /\ ~Called("update")
        /\ LET unflagged == saveQueryBody(pre,
                               [last.params EXCEPT !.overwrite = "undefined"],
                               last.fault)
               storeEmptied == saveQueryBody(
                               [pre EXCEPT !.files[LastName] = AbsentFile],
                               last.params, last.fault)
           IN /\ unflagged.st = State
              /\ unflagged.calls = last.calls
              /\ withErrorHandling("saving tool", unflagged) = last.response
              /\ storeEmptied.calls = last.calls
              /\ withErrorHandling("saving tool", storeEmptied) = last.response
        /\ ~last.response.isError
              => /\ last.response.message = "Successfully created"
                 /\ last.calls = <<"saveToolToFile", "registerTool",
                                   "registeredTools.set">>
                 /\ RegistryHas(registeredTools, LastName)
                 /\ files[LastName] = RecordFile(BuildToolConfig(last.params)))

C7_Witness ==
    /\ last.op = "save"
    /\ last.params.overwrite = "true"
    /\ ~WasRegistered
    /\ pre.files[LastName].kind = "record"
    /\ ~last.response.isError
    /\ last.response.message = "Successfully created"
    /\ RegistryHas(registeredTools, LastName)

\* C8: a save_query with overwrite=true for a registered name calls update()
\* on the existing Registry handle: the Registry maps the name to the same
\* handle before and after the call, neither remove() nor registerTool is
\* called, and after a successful call the server holds the new definition
\* under that same handle.
C8_UpdateKeepsHandle ==
    (/\ last.op = "save"
     /\ last.params.overwrite = "true"
     /\ WasRegistered)
    => (/\ registeredTools = pre.registeredTools
        /\ ~Called("remove")
        /\ ~Called("registerTool")
        /\ ~Called("registeredTools.set")
        /\ serverTools[LastName].handle = pre.serverTools[LastName].handle
        /\ ~last.response.isError
              => /\ last.response.message = "Successfully updated"
                 /\ last.calls = <<"saveToolToFile", "update">>
                 /\ serverTools[LastName] =
                       DynamicTool(pre.registeredTools[LastName],
                                   BuildToolConfig(last.params)))

C8_Witness ==
    /\ last.op = "save"
    /\ last.params.overwrite = "true"
    /\ WasRegistered
    /\ ~last.response.isError
    /\ Called("update")
    /\ registeredTools[LastName] = pre.registeredTools[LastName]
    /\ serverTools[LastName].callback # pre.serverTools[LastName].callback

\* C9: in every reachable state every name in the Registry has a loadable
\* record in the Persistence Store, whatever startup loads, save_query and
\* delete_saved_query calls (also calls that failed part-way) came before.
C9_RegisteredIsLoadable ==
    \A n \in RegisteredNames(registeredTools) :
        LET loaded == loadToolFromFile(files, n)
        IN /\ ~loaded.threw
           /\ ~loaded.isNull

\* C10: a save_query call with overwrite=true that repeats the call before
\* it (same request; the first returned success, or no collaborator failed
\* in either) leaves the persisted definitions and the set of registered
\* names as the first call left them.
C10_RepeatedOverwriteIdempotent ==
    repeat
    => (/\ last.op = "save"
        /\ last.params.overwrite = "true"
        /\ files = pre.files
        /\ RegisteredNames(registeredTools) = RegisteredNames(pre.registeredTools)
        /\ ~last.response.isError
              => files[LastName] = RecordFile(BuildToolConfig(last.params)))

\* ------------------------------------------------------------------------
\* Properties of parseNamedParameters, stated over the input text without
\* the scan of ReplaceFrom.
\* ------------------------------------------------------------------------

\* positions of a colon that is followed by a letter or underscore
ColonStarts(s) ==
    {i \in 1..(Len(s) - 1) : s[i] = ":" /\ IsIdentStart(s[i + 1])}

\* those of them that directly follow another colon (the `::` of a cast)
CastStarts(s) == {i \in ColonStarts(s) : i > 1 /\ s[i - 1] = ":"}

\* the placeholders of the text: a colon not preceded by a colon
PlaceholderStarts(s) == ColonStarts(s) \ CastStarts(s)

\* the elements of a set of numbers in ascending order
Ascending(S) ==
    CHOOSE q \in [1..Cardinality(S) -> S] :
        \A i, j \in 1..Cardinality(S) : i < j => q[i] < q[j]

\* the identifier that follows the colon at position i
NameAt(s, i) == SubSeq(s, i + 1, IdentEnd(s, i + 1))

\* placeholder names of the text, one per occurrence, left to right
OccurrenceNames(s) ==
    LET q == Ascending(PlaceholderStarts(s))
    IN [k \in 1..Len(q) |-> NameAt(s, q[k])]

\* the distinct names of a sequence, in the order of their first occurrence
RECURSIVE FirstOccurrences(_)
FirstOccurrences(names) ==
    IF names = <<>> THEN <<>>
    ELSE LET front == FirstOccurrences(SubSeq(names, 1, Len(names) - 1))
             n == names[Len(names)]
         IN IF IndexOf(front, n) = 0 THEN Append(front, n) ELSE front

\* s[a..b], empty when a > b
Slice(s, a, b) == IF a > b THEN <<>> ELSE SubSeq(s, a, b)

\* the text with the k-th placeholder and everything after it rewritten:
\* each occurrence becomes `$` and the decimal index of its name
RECURSIVE RewrittenFrom(_, _, _)
RewrittenFrom(s, k, from) ==
    LET q == Ascending(PlaceholderStarts(s))
    IN IF k > Len(q) THEN Slice(s, from, Len(s))
       ELSE Slice(s, from, q[k] - 1)
            \o <<"$">>
            \o DecimalChars(IndexOf(FirstOccurrences(OccurrenceNames(s)),
                                    NameAt(s, q[k])))
            \o RewrittenFrom(s, k + 1, IdentEnd(s, q[k] + 1) + 1)

\* the text outside the placeholders, in order
RECURSIVE OutsideFrom(_, _, _)
OutsideFrom(s, k, from) ==
    LET q == Ascending(PlaceholderStarts(s))
    IN IF k > Len(q) THEN Slice(s, from, Len(s))
       ELSE Slice(s, from, q[k] - 1)
            \o OutsideFrom(s, k + 1, IdentEnd(s, q[k] + 1) + 1)

\* a rewritten text without its `$<digits>` tokens
RECURSIVE WithoutPositions(_, _)
WithoutPositions(out, i) ==
    LET digits == {"0", "1", "2", "3", "4", "5", "6", "7", "8", "9"}
        skip[j \in 1..(Len(out) + 1)] ==
            IF j <= Len(out) /\ out[j] \in digits THEN skip[j + 1] ELSE j
    IN IF i > Len(out) THEN <<>>
       ELSE IF out[i] = "$" THEN WithoutPositions(out, skip[i + 1])
       ELSE <<out[i]>> \o WithoutPositions(out, i + 1)

\* number of elements of seq equal to v
Count(seq, v) == Cardinality({i \in 1..Len(seq) : seq[i] = v})

\* C19: parseNamedParameters gives each distinct placeholder name the
\* 1-based index of its first occurrence, rewrites every occurrence of the
\* name to `$<index>`, and returns the distinct names in first-occurrence
\* order: a repeated name has one entry and the length of parameterOrder
\* is the highest position used.
C19_FirstOccurrenceNumbering ==
    pure.fn = "parseNamedParameters"
    => LET s == pure.input.sql
           out == pure.output
           names == OccurrenceNames(s)
       IN /\ out.parameterOrder = FirstOccurrences(names)
          /\ \A n \in {names[k] : k \in 1..Len(names)} :
                Count(out.parameterOrder, n) = 1
          /\ out.sql = RewrittenFrom(s, 1, 1)
          /\ Count(out.sql, "$") = Len(names)
          /\ \A k \in 1..Len(names) :
                IndexOf(out.parameterOrder, names[k]) \in 1..Len(out.parameterOrder)
          /\ \A p \in 1..Len(out.parameterOrder) :
                \E k \in 1..Len(names) : names[k] = out.parameterOrder[p]

C19_Witness ==
    /\ pure.fn = "parseNamedParameters"
    /\ pure.input.sql = <<":", "a", ":", "b", ":", "a">>
    /\ pure.output.sql = <<"$", "1", "$", "2", "$", "1">>
    /\ pure.output.parameterOrder = << <<"a">>, <<"b">> >>

\* C20: a colon directly preceded by a colon never starts a placeholder: a
\* `::identifier` cast is copied unchanged and its identifier enters
\* parameterOrder only if a real placeholder carries the same name, also
\* directly after a real placeholder; all text outside the placeholders is
\* passed through unchanged.
C20_CastsPassThrough ==
    pure.fn = "parseNamedParameters"
    => LET s == pure.input.sql
           out == pure.output
           real == PlaceholderStarts(s)
       IN /\ Count(out.sql, "$") = Cardinality(real)
          /\ {out.parameterOrder[p] : p \in 1..Len(out.parameterOrder)}
                = {NameAt(s, i) : i \in real}
          /\ WithoutPositions(out.sql, 1) = OutsideFrom(s, 1, 1)
          /\ Count(out.sql, ":") = Count(s, ":") - Cardinality(real)

C20_Witness ==
    /\ pure.fn = "parseNamedParameters"
    /\ pure.input.sql = <<":", "a", ":", ":", "b">>
    /\ pure.output.sql = <<"$", "1", ":", ":", "b">>
    /\ pure.output.parameterOrder = << <<"a">> >>

\* ------------------------------------------------------------------------
\* Properties of validateJsonSchema
\* ------------------------------------------------------------------------

\* the schema is an object whose `type` is outside the JSON Schema
\* vocabulary and which has nothing else wrong with it
UnknownTypeOnly(schema) ==
    /\ schema.json = "object"
    /\ schema.type \notin JsonSchemaTypes \cup {""}
    /\ \A p \in schema.properties : p.type \in JsonSchemaTypes \cup {""}

\* the states a save_query call can find: no tool saved, or get_user
\* saved and registered
SaveStates == {createServer(fs, "none").st : fs \in LoopDirectories}

\* a save_query request for get_user that carries the schema
SaveWithSchema(st, schema, overwrite) ==
    saveQueryBody(st,
        [tool_name |-> "get_user", description |-> "Get user",
         sql_query |-> SqlOne, parameter_schema |-> schema,
         overwrite |-> overwrite], "none")

\* C16 as stated: an object schema whose `type` is outside the supported
\* vocabulary and which is otherwise well-formed is accepted by
\* validateJsonSchema, and a save with it is not rejected for its type.
C16_UnknownTypeAccepted ==
    (/\ pure.fn = "validateJsonSchema"
     /\ UnknownTypeOnly(pure.input.schema))
    => (/\ pure.output = TRUE
        /\ ~SaveWithSchema(State, pure.input.schema, "undefined").threw)

\* C16 (amended): an object schema whose `type` is outside the JSON Schema
\* vocabulary is rejected by validateJsonSchema also when it is otherwise
\* well-formed, and every save with it is rejected with nothing persisted
\* or registered: with the parameter_schema error, or, for a name that is
\* registered when overwrite is not set, with the conflict error that the
\* handler raises first; of the schemas without a `type` from the
\* vocabulary only those that omit `type` are accepted.
C16_UnknownTypeRejected ==
    pure.fn = "validateJsonSchema"
    => LET schema == pure.input.schema
       IN /\ UnknownTypeOnly(schema)
             => /\ pure.output = FALSE
                /\ \A st \in SaveStates, overwrite \in OverwriteValues :
                     LET save == SaveWithSchema(st, schema, overwrite)
                         conflict ==
                             /\ RegistryHas(st.registeredTools, "get_user")
                             /\ overwrite # "true"
                     IN /\ save.threw
                        /\ save.calls = <<>>
                        /\ save.st = st
                        /\ save.message = IF conflict THEN "already exists"
                                          ELSE "Invalid parameter_schema"
          /\ pure.output = TRUE
             <=> /\ schema.json = "object"
                 /\ schema.type \in JsonSchemaTypes \cup {""}
                 /\ \A p \in schema.properties : p.type \in JsonSchemaTypes \cup {""}
          /\ pure.output = TRUE
             => ~SaveWithSchema(State, schema, "undefined").threw

\* the schema was refused; a save with it names the schema for a new name
\* and for an overwrite, and the conflict for a registered name
C16_Witness ==
    /\ pure.fn = "validateJsonSchema"
    /\ pure.input.schema = SchemaInvalidType
    /\ UnknownTypeOnly(pure.input.schema)
    /\ pure.output = FALSE
    /\ SaveWithSchema(State, pure.input.schema, "undefined").message
          = "Invalid parameter_schema"
    /\ \E st \in SaveStates :
          /\ RegistryHas(st.registeredTools, "get_user")
          /\ SaveWithSchema(st, pure.input.schema, "true").message
                = "Invalid parameter_schema"
          /\ SaveWithSchema(st, pure.input.schema, "false").message
                = "already exists"

\* ------------------------------------------------------------------------
\* Properties of withErrorHandling
\* ------------------------------------------------------------------------

\* the body failed: it threw, or the promise it returned rejected
BodyFailed(fn) == fn.outcome \in {"throw", "reject"}

\* C17: no error escapes withErrorHandling: for every body, synchronous or
\* asynchronous, throwing or rejecting, the wrapper returns (or resolves to)
\* an envelope with exactly one text item; on failure isError is true and
\* the text is "Error ", the operation name, " while <stage>" for the last
\* stage the body logged (nothing when it logged none), then the message.
C17_NoErrorEscapes ==
    pure.fn = "withErrorHandling"
    => LET fn == pure.input.fn
           out == pure.output
           text == out.response.content[1].text
           message == IF fn.error.instanceOfError THEN fn.error.message
                      ELSE "Unknown error"
       IN /\ ~out.escaped
          /\ Len(out.response.content) = 1
          /\ out.response.content[1].type = "text"
          /\ out.response.isError = BodyFailed(fn)
          /\ out.isPromise = (fn.style # "sync" /\ ~ThrewSynchronously(fn))
          /\ BodyFailed(fn) /\ fn.logs = <<>>
                => text = <<"Error ", "operation", ": ", message>>
          /\ BodyFailed(fn) /\ fn.logs # <<>>
                => text = <<"Error ", "operation", " while ",
                            fn.logs[Len(fn.logs)], ": ", message>>
          /\ ~BodyFailed(fn) => text = <<fn.value>>

C17_Witness ==
    /\ pure.fn = "withErrorHandling"
    /\ pure.input.fn.style = "async"
    /\ pure.input.fn.outcome = "throw"
    /\ pure.input.fn.logs = <<"step 1", "step 2">>
    /\ pure.output.isPromise
    /\ pure.output.response.isError
    /\ pure.output.response.content[1].text
          = <<"Error ", "operation", " while ", "step 2", ": ", "boom">>

\* ------------------------------------------------------------------------
\* Properties of the records save_query writes
\* ------------------------------------------------------------------------

\* the definition derives its positional form from its own sql_query
DerivedFromOwnSql(config) ==
    LET parsed == parseNamedParameters(config.sql_query)
    IN /\ config.sql_prepared = parsed.sql
       /\ config.parameter_order = parsed.parameterOrder

\* C11: a record written by save_query (writeFileSync returned), when
\* loaded back by name, has
\* sql_prepared and parameter_order equal to what parseNamedParameters gives
\* for its sql_query, and the save replaces the previous record in full:
\* every field of the loaded definition comes from the request.
C11_SavedRecordRoundTrip ==
    (/\ last.op = "save"
     /\ Called("saveToolToFile")
     /\ last.fault \notin {"fs", "write"})
    => LET loaded == loadToolFromFile(files, LastName)
       IN /\ ~loaded.threw
          /\ ~loaded.isNull
          /\ DerivedFromOwnSql(loaded.config)
          /\ loaded.config.name = last.params.tool_name
          /\ loaded.config.description = last.params.description
          /\ loaded.config.sql_query = last.params.sql_query
          /\ loaded.config.parameter_schema = last.params.parameter_schema
          /\ loaded.config.sql_prepared
                = parseNamedParameters(last.params.sql_query).sql
          /\ loaded.config.parameter_order
                = parseNamedParameters(last.params.sql_query).parameterOrder
          /\ DOMAIN loaded.config
                = {"name", "description", "sql_query", "sql_prepared",
                   "parameter_schema", "parameter_order"}

C11_Witness ==
    /\ last.op = "save"
    /\ Called("saveToolToFile")
    /\ ~last.response.isError
    /\ pre.files[LastName].kind = "record"
    /\ LET old == pre.files[LastName].config
           new == loadToolFromFile(files, LastName).config
       IN /\ old.description # new.description
          /\ old.sql_query # new.sql_query
          /\ old.sql_prepared # new.sql_prepared
          /\ old.parameter_schema # new.parameter_schema
          /\ old.parameter_order # new.parameter_order
          /\ new.parameter_order # <<>>
          /\ DerivedFromOwnSql(new)

\* ------------------------------------------------------------------------
\* Properties of save_query with an invalid parameter_schema
\* ------------------------------------------------------------------------

\* the last call was a save_query whose parameter_schema is not a JSON Schema
SavedInvalidSchema ==
    /\ last.op = "save"
    /\ ~validateJsonSchema(last.params.parameter_schema)

\* C15 as stated: a save_query with a structurally invalid parameter_schema
\* returns an error whose text names a parameter_schema problem, with
\* nothing persisted and nothing registered or updated.
C15_InvalidSchemaNamedInError ==
    SavedInvalidSchema
    => (/\ last.response.isError
        /\ last.response.message = "Invalid parameter_schema"
        /\ last.calls = <<>>
        /\ Untouched)

\* C15 (amended): a save_query with a structurally invalid parameter_schema
\* is always rejected with nothing persisted and nothing registered or
\* updated; the error names the parameter_schema problem unless the name
\* is registered and overwrite is not set, in which case the conflict is
\* reported, because the handler checks for the conflict first.
C15_InvalidSchemaRejected ==
    SavedInvalidSchema
    => (/\ last.response.isError
        /\ last.calls = <<>>
        /\ Untouched
        /\ IF WasRegistered /\ last.params.overwrite # "true"
           THEN last.response.message = "already exists"
           ELSE /\ last.response.message = "Invalid parameter_schema"
                /\ last.response.stage = "validating parameter schema")

C15_Witness ==
    /\ SavedInvalidSchema
    /\ WasRegistered
    /\ last.params.overwrite = "true"
    /\ last.response.isError
    /\ last.response.message = "Invalid parameter_schema"
    /\ files[LastName].kind = "record"
    /\ files[LastName].config.parameter_schema # last.params.parameter_schema

\* ------------------------------------------------------------------------
\* Properties of startup
\* ------------------------------------------------------------------------

\* names with a record file in the Persistence Store
PersistedNames(fs) == {n \in DOMAIN fs : fs[n].kind = "record"}

\* the running process was started with every core tool enabled
AllCoreToolsEnabled == serverTools["save_query"].kind = "core"

\* C14: saved tools persist across sessions: when the process is started
\* again after a successful save_query, startup registers one tool per
\* persisted record, so the Registry then holds exactly the names that have
\* a record, the saved tool among them (stated for a process that ran with
\* every core tool enabled).
C14_SavedToolsPersistAcrossSessions ==
    [][(/\ last.op = "save"
        /\ ~last.response.isError
        /\ ~WasRegistered
        /\ AllCoreToolsEnabled
        /\ last'.op = "startup")
       => (/\ phase' = "running"
           /\ RegistryHas(registeredTools', LastName)
           /\ RegisteredNames(registeredTools') = PersistedNames(files'))]_vars

\* ------------------------------------------------------------------------
\* Properties of the event-loop model
\* ------------------------------------------------------------------------

InvokeTasks == {t \in DOMAIN tasks : tasks[t].kind = "invoke"}

LifecycleTasks == {t \in DOMAIN tasks : tasks[t].kind \in LifecycleKinds}

\* the declared properties of the schema the arguments do not satisfy: a
\* required one that is missing, or one whose value has another type
FailingFields(schema, args) ==
    {p \in schema.properties :
        /\ ZodTypeOf(p.type) # "any"
        /\ \/ args[p.key] = Undefined /\ p.key \in schema.required
           \/ args[p.key] # Undefined /\ args[p.key].type # ZodTypeOf(p.type)}

\* the text of the only content item of a reply
ReplyText(reply) == reply.content[1].text

\* the reason the message gives for the path, <<>> when it does not name it
ReasonFor(message, key) ==
    IF \E i \in 1..(Len(message) - 2) : message[i] = key /\ message[i + 1] = ": "
    THEN LET i == CHOOSE i \in 1..(Len(message) - 2) :
                      message[i] = key /\ message[i + 1] = ": "
         IN <<message[i + 2]>>
    ELSE <<>>

\* C18: a dynamic tool handler validates its input before anything else: a
\* call whose arguments fail the tool's parameter schema ends at once with an
\* error reply, raised while validating parameters, whose message names every
\* failing field with its reason, and neither pool.query nor getTypeNames is
\* called for it.
C18_ValidationBeforeExecution ==
    \A t \in InvokeTasks :
        LET task == tasks[t]
            failing == FailingFields(task.handler.parameter_schema, task.args)
            text == ReplyText(task.reply)
        IN failing # {} =>
            /\ task.pc = "done"
            /\ task.calls = <<>>
            /\ task.query = NoQuery
            /\ task.reply.isError
            /\ Len(task.reply.content) = 1
            /\ SubSeq(text, 1, Len(text) - 1)
                 = <<"Error ">> \o InvokeOperation(task.handler)
                   \o <<" while ", "validating parameters", ": ">>
            /\ Head(text[Len(text)]) = "Parameter validation error: "
            /\ \A p \in failing :
                 ReasonFor(text[Len(text)], p.key)
                   = IF task.args[p.key] = Undefined THEN <<"Required">>
                     ELSE <<"Expected ">>

\* a call with two failing fields has been answered
C18_Witness ==
    \E t \in InvokeTasks :
        /\ Cardinality(FailingFields(tasks[t].handler.parameter_schema,
                                     tasks[t].args)) = 2
        /\ tasks[t].pc = "done"
        /\ tasks[t].reply.isError
        /\ \E p \in tasks[t].handler.parameter_schema.properties :
             tasks[t].args[p.key] = Undefined
        /\ \E p \in tasks[t].handler.parameter_schema.properties :
             tasks[t].args[p.key] # Undefined

\* the definition the server held for the tool of the task when the task
\* was accepted
DefinitionAtStart(task) == task.start.serverTools[task.params.tool_name].callback

\* the task has sent its query to the pool
SentQuery(task) == task.calls # <<>> /\ Head(task.calls) = "pool.query"

\* C12: a call of a dynamic tool is served with the definition the tool had
\* when the call started: the query it sends, the order of its arguments and
\* the schema they were checked against are those of that definition, and
\* they stay so until the call completes, whatever save_query does to the
\* tool in the meantime.
C12_InvocationKeepsItsDefinition ==
    \A t \in InvokeTasks :
        LET task == tasks[t]
            definition == DefinitionAtStart(task)
            parsed == paramSchemaParse(definition.parameter_schema, task.args)
        IN /\ task.handler = definition
           /\ SentQuery(task) <=> parsed.issues = <<>>
           /\ SentQuery(task) =>
                /\ task.query.sql = definition.sql_prepared
                /\ task.query.values
                     = mapToPositional(parsed.data, definition.parameter_order)
           /\ (task.pc = "done" /\ task.reply.isError) =>
                SubSeq(ReplyText(task.reply), 2, 4) = InvokeOperation(definition)

\* a call completed with success after the tool was updated to another
\* definition while the call was waiting, and it sent the query of the
\* definition it started with
C12_Witness ==
    \E t \in InvokeTasks :
        LET task == tasks[t]
            now == task.end.serverTools[task.params.tool_name]
        IN /\ task.pc = "done"
           /\ ~task.reply.isError
           /\ now.kind = "dynamic"
           /\ now.callback.sql_prepared # task.handler.sql_prepared
           /\ task.query.sql = task.handler.sql_prepared
           /\ task.query.sql # <<>>

\* the handler body of a lifecycle task, run in one piece on the state the
\* task started in
AtomicBody(task) ==
    IF task.kind = "save" THEN saveQueryBody(task.start, task.params, task.fault)
    ELSE deleteSavedQueryBody(task.start, task.params, task.fault)

LifecycleOperation(task) ==
    IF task.kind = "save" THEN "saving tool" ELSE "deleting tool"

\* C13: lifecycle operations do not interleave: a save_query or
\* delete_saved_query that has started holds the thread until it has
\* finished, so at most one is part-way through its steps, and each one
\* leaves the state and the response its handler produces when run in one
\* piece on the state it started in.
C13_LifecycleRunsToCompletion ==
    /\ \A t \in LifecycleTasks :
        tasks[t].pc # "done" =>
            /\ running = t
            /\ \A u \in LifecycleTasks : tasks[u].pc # "done" => u = t
    /\ \A t \in LifecycleTasks :
        tasks[t].pc = "done" =>
            LET body == AtomicBody(tasks[t])
            IN /\ tasks[t].end = body.st
               /\ tasks[t].calls = body.calls
               /\ tasks[t].response
                    = withErrorHandling(LifecycleOperation(tasks[t]), body)

\* a save_query has persisted its definition and not yet registered it,
\* while a call of a dynamic tool is waiting on the query executor
C13_Witness ==
    \E t \in LifecycleTasks, u \in InvokeTasks :
        /\ tasks[t].kind = "save"
        /\ tasks[t].pc = "register"
        /\ tasks[t].calls = <<"saveToolToFile">>
        /\ tasks[u].pc = "query"
        /\ running = t

\* ------------------------------------------------------------------------
\* Properties of the library functions, continued
\* ------------------------------------------------------------------------

\* C21: mapToPositional(values, order) returns one element per name of
\* order, the i-th being values[order[i]]: composed with the order of
\* parseNamedParameters and an object holding every name it gives the value
\* of the name that `$k` replaced at index k-1, and a name the object does
\* not hold yields undefined.
C21_PositionalValuesFollowOrder ==
    pure.fn = "mapToPositional" =>
        LET params == pure.input.call.params
            order == pure.output.parameterOrder
            values == pure.output.positionalParams
        IN /\ Len(values) = Len(order)
           /\ \A i \in 1..Len(order) :
                IF HasOwn(params, order[i])
                THEN values[i] = params[order[i][1]]
                ELSE values[i] = Undefined
           /\ order = FirstOccurrences(OccurrenceNames(pure.input.call.query))

\* the file holds something, but not a record loadToolFromFile accepts
Corrupt(file) ==
    /\ file.exists
    /\ \/ ~file.readable
       \/ ~file.parses
       \/ ~isValidToolConfigContent(file.content)

\* C22: loadToolFromFile keeps its two failure classes apart: it returns
\* null exactly when there is no file for the name, and it throws exactly
\* when there is one that cannot be read or parsed or that fails
\* isValidToolConfig; it never returns null for a corrupt record and never
\* throws for a missing one.
C22_AbsentIsNullCorruptThrows ==
    pure.fn = "loadToolFromFile" =>
        LET file == pure.input.file
        IN /\ pure.output.isNull <=> ~file.exists
           /\ pure.output.threw <=> Corrupt(file)
           /\ ~(pure.output.isNull /\ pure.output.threw)
           /\ (~pure.output.isNull /\ ~pure.output.threw) =>
                pure.output.config = file.content

\* loadToolFromFile threw for a file whose text parses to null
C22_Witness ==
    /\ pure.fn = "loadToolFromFile"
    /\ pure.input.file.exists
    /\ pure.input.file.parses
    /\ pure.input.file.content.json = "null"
    /\ pure.output.threw
    /\ ~pure.output.isNull

\* the listed entries that are record files
JsonEntries(dir) == {e \in DOMAIN dir.entries : EndsWithJson(e)}

\* C23: loadAllTools returns one entry per record file (a listed *.json
\* entry that is there), keyed by the file name without the extension, and
\* skips every other entry; if any one *.json file fails to load or
\* validate, the whole call throws and no record is returned.
C23_OneFailureFailsAll ==
    pure.fn = "loadAllTools" =>
        LET dir == pure.input.dir
            failing == {e \in JsonEntries(dir) : Corrupt(dir.entries[e])}
        IN IF ~dir.exists
           THEN ~pure.output.threw /\ DOMAIN pure.output.tools = {}
           ELSE /\ pure.output.threw <=> (dir.readdirFails \/ failing # {})
                /\ pure.output.threw => DOMAIN pure.output.tools = {}
                /\ ~pure.output.threw =>
                     /\ DOMAIN pure.output.tools
                          = {e.stem : e \in {j \in JsonEntries(dir) :
                                                dir.entries[j].exists}}
                     /\ \A e \in JsonEntries(dir) :
                          dir.entries[e].exists
                             => pure.output.tools[e.stem] = dir.entries[e].content

\* loadAllTools threw for a listing with a good record, a corrupt one and a
\* file that is not a record file
C23_Witness ==
    /\ pure.fn = "loadAllTools"
    /\ pure.input.dir.exists
    /\ ~pure.input.dir.readdirFails
    /\ DOMAIN pure.input.dir.entries = EntryNames
    /\ \E e \in JsonEntries(pure.input.dir) : Corrupt(pure.input.dir.entries[e])
    /\ \E e \in JsonEntries(pure.input.dir) : ~Corrupt(pure.input.dir.entries[e])
    /\ pure.output.threw

\* the field shapes of a SavedToolConfig
HasConfigShape(config) ==
    /\ config.json = "object"
    /\ config.name.json = "string"
    /\ config.description.json = "string"
    /\ config.sql_query.json = "string"
    /\ config.sql_prepared.json = "string"
    /\ config.parameter_schema.json \in {"object", "array"}
    /\ config.parameter_order.json = "array"
    /\ \A i \in 1..Len(config.parameter_order.items) :
         config.parameter_order.items[i] = "string"

\* C28: every definition loadToolFromFile or loadAllTools returns has string
\* name, description, sql_query and sql_prepared, a parameter_schema that is
\* a non-null object and a parameter_order that is an array of strings, and
\* a file whose value has any other shape makes the call throw.
C28_LoadedDefinitionsAreWellShaped ==
    /\ pure.fn = "loadToolFromFile" =>
         /\ (~pure.output.threw /\ ~pure.output.isNull) =>
              HasConfigShape(pure.output.config)
         /\ (pure.input.file.exists /\ pure.input.file.readable
               /\ pure.input.file.parses
               /\ ~HasConfigShape(pure.input.file.content)) => pure.output.threw
    /\ pure.fn = "loadAllTools" =>
         \A n \in DOMAIN pure.output.tools : HasConfigShape(pure.output.tools[n])

\* the resolver's mapping has an entry for the identifier
Resolved(typeNames, oid) == \E r \in typeNames.rows : r.oid = oid

\* the descriptors are those of the columns, in order, with the name and the
\* raw identifier of each
DescribesColumns(value, result) ==
    /\ Len(value.fields) = Len(result.fields)
    /\ \A i \in 1..Len(result.fields) :
         /\ value.fields[i].name = result.fields[i].name
         /\ value.fields[i].dataTypeID = result.fields[i].dataTypeID

\* C24 as stated: for execute_sql_query and for dynamic tools each column
\* descriptor carries the column name, the raw type identifier and the
\* resolved type name, which is "unknown" exactly when the resolver's mapping
\* has no entry for the identifier.
C24_UnknownExactlyWhenUnresolved ==
    pure.fn = "resolveTypeNames" =>
        \A value \in {pure.output.executeSql, pure.output.dynamicTool} :
            /\ DescribesColumns(value, pure.input.result)
            /\ \A i \in 1..Len(value.fields) :
                 value.fields[i].dataType = "unknown"
                    <=> ~Resolved(pure.output.typeNames, value.fields[i].dataTypeID)

\* C24: for execute_sql_query and for dynamic tools each column descriptor
\* carries the column name, the raw type identifier and the type name: the
\* name the resolver's mapping has for the identifier, and "unknown" when it
\* has none; every column is described either way.
C24_UnresolvedTypeIsUnknown ==
    pure.fn = "resolveTypeNames" =>
        \A value \in {pure.output.executeSql, pure.output.dynamicTool} :
            /\ DescribesColumns(value, pure.input.result)
            /\ \A i \in 1..Len(value.fields) :
                 LET oid == value.fields[i].dataTypeID
                 IN IF Resolved(pure.output.typeNames, oid)
                    THEN \E r \in pure.output.typeNames.rows :
                            r.oid = oid /\ value.fields[i].dataType = r.typname
                    ELSE value.fields[i].dataType = "unknown"

\* two columns were described, one resolved and one not
C24_Witness ==
    /\ pure.fn = "resolveTypeNames"
    /\ Len(pure.output.executeSql.fields) = 2
    /\ pure.output.executeSql.fields[1].dataType = "int4"
    /\ pure.output.executeSql.fields[2].dataType = "unknown"
    /\ pure.output.dynamicTool.fields[2].dataTypeID = 99999
    /\ ~Resolved(pure.output.typeNames, 99999)

\* C29: after a successful query the handler calls the Type Name Resolver
\* with the distinct type identifiers of the result columns: the sequence it
\* passes holds every identifier of the columns and none twice.
C29_ResolverGetsDistinctOids ==
    pure.fn = "getTypeNames" =>
        /\ {pure.output.oids[i] : i \in 1..Len(pure.output.oids)}
             = {pure.input.result.fields[i].dataTypeID :
                  i \in 1..Len(pure.input.result.fields)}
        /\ \A i, j \in 1..Len(pure.output.oids) :
             pure.output.oids[i] = pure.output.oids[j] => i = j

\* ------------------------------------------------------------------------
\* Properties of the Registry against the Persistence Store
\* ------------------------------------------------------------------------

\* the handler the server runs under the name executes the prepared query
\* and the parameter order of the record the store holds for it
HandlerMatchesRecord(n) ==
    /\ serverTools[n].kind = "dynamic"
    /\ files[n].kind = "record"
    /\ serverTools[n].callback.sql_prepared = files[n].config.sql_prepared
    /\ serverTools[n].callback.parameter_order = files[n].config.parameter_order

\* C25: after every save_query call, whether it returned success or an
\* error, the live handler under each Registry name executes the
\* sql_prepared and parameter_order of the record currently persisted for
\* that name.
C25_HandlerExecutesPersistedRecord ==
    last.op = "save" =>
        \A n \in RegisteredNames(registeredTools) : HandlerMatchesRecord(n)

\* protected names that have a record or a Registry entry
ProtectedHeld(fs, reg) ==
    {n \in PROTECTED_TOOLS \cap DOMAIN fs :
        fs[n].kind = "record" \/ RegistryHas(reg, n)}

\* C26: no save_query or delete_saved_query call leaves a protected name
\* with a persisted record or a Registry entry: from a state where no
\* protected name has either, every such call ends in a state where none has.
C26_ProtectedNamesNeverSaved ==
    [][(/\ ProtectedHeld(files, registeredTools) = {}
        /\ last'.op \in {"save", "delete"})
       => ProtectedHeld(files', registeredTools') = {}]_vars

\* C27: a name that delete_saved_query has removed from the Registry is not
\* registered by the startup that follows: when the process is started again
\* right after the call, the Registry does not hold the name.
C27_DeletedStaysUnregistered ==
    [][(/\ last.op = "delete"
        /\ WasRegistered
        /\ ~RegistryHas(registeredTools, LastName)
        /\ last'.op = "startup")
       => ~RegistryHas(registeredTools', LastName)]_vars

\* ------------------------------------------------------------------------
\* Properties of list_saved_queries
\* ------------------------------------------------------------------------

\* positions of the text where a line of the list starts
LineStarts(text) == {i \in 1..Len(text) : text[i] = "- **"}

\* the names the text lists, in order
ListedNames(text) ==
    LET starts == Ascending(LineStarts(text))
    IN [k \in 1..Len(starts) |-> text[starts[k] + 1]]

\* the store holds a record loadToolFromFile returns for the name
HasRecord(dir, toolName) ==
    /\ dir.exists
    /\ \E e \in DOMAIN dir.entries :
         /\ EndsWithJson(e)
         /\ ToolNameOf(e) = toolName
         /\ ~loadToolFromDisk(dir.entries[e]).threw
         /\ ~loadToolFromDisk(dir.entries[e]).isNull

\* C30: list_saved_queries reports exactly the Registry names, one line per
\* name, with the count equal to the Registry size, whatever the store
\* holds; with an empty Registry it answers that none were found without
\* reading the store; a registered name with no record is listed with
\* 'No description'.
C30_ListReportsRegistry ==
    pure.fn = "listSavedQueries" =>
        LET keys == pure.input.keys
            response == pure.output.response
            text == response.content[1].text[1]
        IN /\ ~response.isError
           /\ Len(keys) = 0 =>
                /\ text = <<"No saved queries found.">>
                /\ pure.output.calls = <<>>
           /\ Len(keys) > 0 =>
                /\ ListedNames(text) = keys
                /\ SubSeq(text, 1, 4)
                     = <<"Found ">> \o DecimalChars(Len(keys))
                         \o <<" saved quer", IF Len(keys) = 1 THEN "y" ELSE "ies">>
                /\ \A i \in LineStarts(text) :
                     ~HasRecord(pure.input.dir, text[i + 1])
                        => text[i + 3] = "No description"

====
